---- MODULE Spec2Model ----
(***************************************************************************)
(* FinancaFacil: the Firestore record store (server/storage.ts), the       *)
(* Express routes in front of it and the analytics aggregation             *)
(* (getMonthlyBalance, getCategoryTotals).                                 *)
(*                                                                         *)
(* Time is counted in ticks of the server's local clock: a calendar day    *)
(* has TicksPerDay ticks, tick 0 of a day is local midnight.  Amounts are  *)
(* integers (minor units); JavaScript's floating point rounding is not     *)
(* modelled.  Opaque pass-through fields (icon, color, description,        *)
(* paymentMethod, period, dates of budgets) are left out of the records.   *)
(***************************************************************************)
EXTENDS Integers, Sequences, FiniteSets, TLC

\* ---------------------------------------------------------------- bounds
MaxCats == 1
MaxTxns == 2
MaxBudgets == 1
MaxGoals == 1
TicksPerDay == 2
MaxSpent == 120
MaxTotal == 100

Users == {"u1", "u2"}
CategoryNames == {"Food", "Rent"}
TxTypes == {"income", "expense"}

\* ------------------------------------------------- JavaScript values
\* A value of type `string | null | undefined`.
Undefined == [k |-> "undefined", s |-> ""]
Null == [k |-> "null", s |-> ""]
Str(s) == [k |-> "string", s |-> s]

\* JavaScript truthiness of a `string | null | undefined`.
Truthy(v) == v.k = "string" /\ v.s # ""

\* Firestore auto-generated document ids (collection.add): fresh, never reused.
CatId(n) == "c" \o ToString(n)
TxnId(n) == "t" \o ToString(n)
BudgetId(n) == "b" \o ToString(n)
GoalId(n) == "g" \o ToString(n)

\* ------------------------------------------------- calendar (JS Date)
IsLeap(y) == (y % 4 = 0 /\ y % 100 # 0) \/ y % 400 = 0

DaysInMonth(y, m) ==
  IF m = 2 THEN (IF IsLeap(y) THEN 29 ELSE 28)
  ELSE IF m \in {4, 6, 9, 11} THEN 30 ELSE 31

LeapsBefore(y) == ((y - 1) \div 4) - ((y - 1) \div 100) + ((y - 1) \div 400)

RECURSIVE DaysBeforeMonth(_, _)
DaysBeforeMonth(y, m) ==
  IF m <= 1 THEN 0 ELSE DaysBeforeMonth(y, m - 1) + DaysInMonth(y, m - 1)

\* Days from 1970-01-01 to the first day of month m (1..12) of year y.
DaysFromCivil(y, m) ==
  365 * (y - 1970) + (LeapsBefore(y) - LeapsBefore(1970)) + DaysBeforeMonth(y, m)

\* new Date(year, monthIndex, day): local midnight, with the overflow rules of
\* the Date constructor (monthIndex 12 is January of the next year, day 0 is
\* the last day of the previous month).
NewDate(year, monthIndex, day) ==
  (DaysFromCivil(year + (monthIndex \div 12), (monthIndex % 12) + 1) + (day - 1))
    * TicksPerDay

\* An instant on calendar day (y, m, d), `tick` ticks after local midnight.
At(y, m, d, tick) == NewDate(y, m - 1, d) + tick

\* The calendar day (in days since 1970-01-01) an instant falls on.
DayOf(t) == t \div TicksPerDay

\* ------------------------------------------------- state
VARIABLES
  categories,    \* collection "categories": doc id -> document
  transactions,  \* collection "transactions"
  budgets,       \* collection "budgets"
  savingsGoals,  \* collection "savingsGoals"
  catSeq, txnSeq, budgetSeq, goalSeq,  \* documents ever added per collection
  status,        \* HTTP status of the last response (0: no request yet)
  request,       \* the last analytics request: route, uid and query string
  storageCall,   \* the aggregation the last analytics request called, if any
  response,      \* what the last analytics request was answered with: status and body
  view,          \* a card of the Budget or Goals page: its inputs, then what it shows
  budgetPage,    \* the Budget page as last rendered: the data, the counters, the cards
  reports,       \* the Reports page: the period, the clock, the date range it asks for
  firebaseAuth,  \* the user Firebase Auth holds in the browser (auth.currentUser)
  authHook,      \* the state of useAuth: user, firebaseToken, isLoading
  callbacks,     \* the auth callbacks that wait for their getIdToken()
  router,        \* the location of the browser and what the Router renders there
  queryCache,    \* the queries cached by the client's QueryClient
  mutation,      \* the transaction mutation the client has in flight, if any
  users,         \* collection "users": uid -> profile document
  upserts,       \* the calls of upsertUserProfile: where each stands, what it holds
  serverTime     \* the time of the last write to "users" (FieldValue.serverTimestamp())

stores == <<categories, transactions, budgets, savingsGoals>>
seqs == <<catSeq, txnSeq, budgetSeq, goalSeq>>
\* What the analytics routes and the pages add to the state; the twelve write
\* routes leave it alone.
session == <<firebaseAuth, authHook, callbacks, router>>
cache == <<queryCache, mutation>>
client == <<budgetPage, reports, session, cache>>
profiles == <<users, upserts, serverTime>>
aux == <<request, storageCall, response, view, client, profiles>>
vars == <<categories, transactions, budgets, savingsGoals,
          catSeq, txnSeq, budgetSeq, goalSeq, status, aux>>

Empty == [x \in {} |-> 0]

\* JavaScript numbers and Dates that are not always finite: parseInt and
\* new Date(string) can give NaN / Invalid Date.
Num(n) == [k |-> "number", n |-> n]
NaN == [k |-> "NaN", n |-> 0]
DateOf(t) == [k |-> "date", n |-> t]
InvalidDate == [k |-> "InvalidDate", n |-> 0]

\* A req.query value: absent, or a string given as its characters.
QAbsent == [k |-> "undefined", c |-> <<>>]
QStr(chars) == [k |-> "string", c |-> chars]

NoRequest == [route |-> "none", uid |-> "", a |-> QAbsent, b |-> QAbsent]
NoCall == [fn |-> "none", x |-> NaN, y |-> NaN, threw |-> FALSE]
NoResponse == [kind |-> "none", status |-> 0, body |-> <<>>, readFrom |-> <<>>]
\* What the arithmetic of a page can give: a ratio n/d (d > 0), or one of
\* the values a division by zero gives.
Ratio(n, d) == [k |-> "finite", n |-> n, d |-> d]
PosInfinity == [k |-> "Infinity", n |-> 1, d |-> 0]
NegInfinity == [k |-> "-Infinity", n |-> 0 - 1, d |-> 0]
NotANumber == [k |-> "NaN", n |-> 0, d |-> 0]

NoBudgetPage == [rendered |-> FALSE, data |-> <<>>, within |-> 0, near |-> 0, cards |-> <<>>]

\* The client before anything is rendered or fetched.
NoReports == [rendered |-> FALSE, period |-> "", year |-> 0, month |-> 0,
              startDate |-> QAbsent, endDate |-> QAbsent]

\* useAuth before the first auth callback: useState(null), useState(null),
\* useState(true); the Router shows "Loading..." at the address the app was
\* opened at ("/" unless the specification says otherwise).
Unresolved == [k |-> "unresolved", s |-> ""]
InitialAuthState == [user |-> Null, firebaseToken |-> Null, isLoading |-> TRUE]
InitSession ==
  /\ firebaseAuth = Unresolved
  /\ authHook = InitialAuthState
  /\ callbacks = <<>>
  /\ router = [location |-> "/", screen |-> "Loading"]

\* The queries the transaction pages and the analytics read, none fetched
\* yet, and no mutation in flight.
QueryKeys == {"/api/transactions", "/api/analytics/monthly-balance", "/api/analytics/category-totals"}
NoQuery == [fetched |-> FALSE, invalidated |-> FALSE, readFrom |-> Empty]
NoMutation == [kind |-> "none", id |-> "", body |-> Empty]
InitCache ==
  /\ queryCache = [key \in QueryKeys |-> NoQuery]
  /\ mutation = NoMutation

InitClient ==
  /\ budgetPage = NoBudgetPage
  /\ reports = NoReports
  /\ InitSession
  /\ InitCache

\* upsertUserProfile is called at most MaxCalls times; no call has begun.
MaxCalls == 2
Calls == 1..MaxCalls
NoUpsert == [pc |-> "idle", userId |-> "", dataToSet |-> Empty]
InitProfiles ==
  /\ users = Empty
  /\ upserts = [c \in Calls |-> NoUpsert]
  /\ serverTime = 0

NoView == [fn |-> "none", a |-> 0, b |-> 0, targetDate |-> QAbsent,
           today |-> 0, done |-> FALSE, status |-> "", shown |-> NotANumber]

InitStores ==
  /\ categories = Empty
  /\ transactions = Empty
  /\ budgets = Empty
  /\ savingsGoals = Empty
  /\ catSeq = 0 /\ txnSeq = 0 /\ budgetSeq = 0 /\ goalSeq = 0
  /\ status = 0

Init ==
  /\ InitStores
  /\ request = NoRequest
  /\ storageCall = NoCall
  /\ response = NoResponse
  /\ view = NoView
  /\ InitClient
  /\ InitProfiles

\* ------------------------------------------------- Firestore helpers
\* collection.add(data) / docRef.delete() / docRef.update(data)
AddDoc(coll, id, data) == [i \in DOMAIN coll \cup {id} |-> IF i = id THEN data ELSE coll[i]]
DeleteDoc(coll, id) == [i \in DOMAIN coll \ {id} |-> coll[i]]

\* docRef.update(data): the fields named in `keys` are overwritten.
UpdateDoc(coll, id, keys, data) ==
  [coll EXCEPT ![id] = [f \in DOMAIN @ |-> IF f \in keys THEN data[f] ELSE @[f]]]

\* Mutation: the ownership check only asks whether the document exists.
OwnsAnyUser(coll, id, userId) == id \in DOMAIN coll

\* `!docSnap.exists || docSnap.data()?.userId !== userId` negated: the
\* ownership check of every update and delete.
Owns(coll, id, userId) == id \in DOMAIN coll /\ coll[id].userId = userId

\* ------------------------------------------------- request bodies
\* A JSON body: `keys` are the properties it carries, the other fields give
\* their values (the value of a property that is not in `keys` is not read).
Has(body, f) == f \in body.keys

\* Mutation: { userId, ...req.body }: a userId of the body wins over the token's.
WithUserIdOfBody(body, uid) ==
  IF Has(body, "userId") THEN body
  ELSE [body EXCEPT !.keys = @ \cup {"userId"}, !.userId = uid]

\* { ...req.body, userId }: the route overwrites userId with the token's uid.
WithUserId(body, uid) == [body EXCEPT !.keys = @ \cup {"userId"}, !.userId = uid]

\* categorySchema
ValidCategoryField(body, f) ==
  CASE f = "name" -> body.name # ""
    [] f = "type" -> body.type \in TxTypes
    [] OTHER -> TRUE
categorySchema(body) ==
  /\ {"userId", "name", "type"} \subseteq body.keys
  /\ \A f \in body.keys : ValidCategoryField(body, f)
categorySchemaPartial(body) == \A f \in body.keys : ValidCategoryField(body, f)

\* z.number(): the JSON value is a number. A body lists under `notNumbers`
\* the properties whose value is of another type (a string, null, a boolean).
IsNumber(body, f) == "notNumbers" \notin DOMAIN body \/ f \notin body.notNumbers

\* Mutation: amount is z.number().nonnegative().
ValidTransactionFieldNonNegative(body, f) ==
  CASE f = "amount" -> IsNumber(body, "amount") /\ body.amount >= 0
    [] f = "type" -> body.type \in TxTypes
    [] f = "categoryId" -> body.categoryId.k \in {"null", "string"}
    [] OTHER -> TRUE

\* transactionSchema (amount: z.number().positive(), date: z.date())
ValidTransactionField(body, f) ==
  CASE f = "amount" -> IsNumber(body, "amount") /\ body.amount > 0
    [] f = "type" -> body.type \in TxTypes
    [] f = "categoryId" -> body.categoryId.k \in {"null", "string"}
    [] OTHER -> TRUE
transactionSchema(body) ==
  /\ {"userId", "amount", "type", "date"} \subseteq body.keys
  /\ \A f \in body.keys : ValidTransactionField(body, f)
transactionSchemaPartial(body) == \A f \in body.keys : ValidTransactionField(body, f)

\* ------------------------------------------------- storage: updates and deletes
\* A storage write returns `ret` (FALSE: undefined / false) and leaves the
\* collection as `coll`.
Failed(coll) == [ret |-> FALSE, coll |-> coll]
Done(coll) == [ret |-> TRUE, coll |-> coll]

\* updateCategory / updateTransaction / updateBudget / updateSavingsGoal:
\* ownership check, then docRef.update(data).  docRef.update throws on a
\* property whose value is undefined (`undef` names those properties); the
\* catch block returns undefined.
updateDoc(coll, id, userId, data, undef) ==
  IF ~Owns(coll, id, userId) THEN Failed(coll)
  ELSE IF undef # {} THEN Failed(coll)
  ELSE Done(UpdateDoc(coll, id, data.keys, data))

\* deleteCategory / deleteTransaction / deleteBudget / deleteSavingsGoal
deleteDoc(coll, id, userId) ==
  IF ~Owns(coll, id, userId) THEN Failed(coll) ELSE Done(DeleteDoc(coll, id))

updateCategory(id, userId, data) == updateDoc(categories, id, userId, data, {})
deleteCategory(id, userId) == deleteDoc(categories, id, userId)
updateTransaction(id, userId, data) ==
  updateDoc(transactions, id, userId, data, IF Has(data, "date") THEN {} ELSE {"date"})
deleteTransaction(id, userId) == deleteDoc(transactions, id, userId)

\* if (!record) res.status(404) else res.json(record)
StatusOf(result) == IF result.ret THEN 200 ELSE 404

\* ------------------------------------------------- category routes
\* createCategory: { ...categoryData, createdAt } is added under a fresh id.
createCategory(data) ==
  AddDoc(categories, CatId(catSeq + 1),
         [userId |-> data.userId, name |-> data.name, type |-> data.type])

\* POST /api/categories
PostCategory(uid, body) ==
  /\ catSeq < MaxCats
  /\ IF categorySchema(WithUserId(body, uid))
       THEN /\ categories' = createCategory(WithUserId(body, uid))
            /\ catSeq' = catSeq + 1
            /\ status' = 200
       ELSE /\ status' = 400
            /\ UNCHANGED <<categories, catSeq>>
  /\ UNCHANGED <<transactions, budgets, savingsGoals, txnSeq, budgetSeq, goalSeq, aux>>

\* PUT /api/categories/:id
PutCategory(uid, id, body) ==
  /\ IF ~categorySchemaPartial(body)
       THEN status' = 400 /\ UNCHANGED categories
       ELSE /\ categories' = updateCategory(id, uid, body).coll
            /\ status' = StatusOf(updateCategory(id, uid, body))
  /\ UNCHANGED <<transactions, budgets, savingsGoals, seqs, aux>>

\* DELETE /api/categories/:id
DeleteCategory(uid, id) ==
  /\ categories' = deleteCategory(id, uid).coll
  /\ status' = StatusOf(deleteCategory(id, uid))
  /\ UNCHANGED <<transactions, budgets, savingsGoals, seqs, aux>>

\* ------------------------------------------------- transaction routes
\* createTransaction: { ...transactionData, createdAt } under a fresh id; a
\* body without categoryId leaves the field out of the document.
createTransaction(data) ==
  AddDoc(transactions, TxnId(txnSeq + 1),
         [userId |-> data.userId,
          categoryId |-> IF Has(data, "categoryId") THEN data.categoryId ELSE Undefined,
          amount |-> data.amount, type |-> data.type, date |-> data.date])

\* POST /api/transactions
PostTransaction(uid, body) ==
  /\ txnSeq < MaxTxns
  /\ IF transactionSchema(WithUserId(body, uid))
       THEN /\ transactions' = createTransaction(WithUserId(body, uid))
            /\ txnSeq' = txnSeq + 1
            /\ status' = 200
       ELSE /\ status' = 400
            /\ UNCHANGED <<transactions, txnSeq>>
  /\ UNCHANGED <<categories, budgets, savingsGoals, catSeq, budgetSeq, goalSeq, aux>>

\* PUT /api/transactions/:id
PutTransaction(uid, id, body) ==
  /\ IF ~transactionSchemaPartial(body)
       THEN status' = 400 /\ UNCHANGED transactions
       ELSE /\ transactions' = updateTransaction(id, uid, body).coll
            /\ status' = StatusOf(updateTransaction(id, uid, body))
  /\ UNCHANGED <<categories, budgets, savingsGoals, seqs, aux>>

\* DELETE /api/transactions/:id
DeleteTransaction(uid, id) ==
  /\ transactions' = deleteTransaction(id, uid).coll
  /\ status' = StatusOf(deleteTransaction(id, uid))
  /\ UNCHANGED <<categories, budgets, savingsGoals, seqs, aux>>

\* ------------------------------------------------- budget routes
\* budgetSchema (amount: z.number().positive(), startDate: z.date())
ValidBudgetField(body, f) ==
  CASE f = "amount" -> body.amount > 0
    [] f = "categoryId" -> body.categoryId.k \in {"null", "string"}
    [] OTHER -> TRUE
budgetSchema(body) ==
  /\ {"userId", "amount", "startDate"} \subseteq body.keys
  /\ \A f \in body.keys : ValidBudgetField(body, f)
budgetSchemaPartial(body) == \A f \in body.keys : ValidBudgetField(body, f)

\* createBudget
createBudget(data) ==
  AddDoc(budgets, BudgetId(budgetSeq + 1),
         [userId |-> data.userId,
          categoryId |-> IF Has(data, "categoryId") THEN data.categoryId ELSE Undefined,
          amount |-> data.amount, startDate |-> data.startDate])

\* updateBudget: the route passes startDate: undefined for a body without one.
updateBudget(id, userId, data) ==
  updateDoc(budgets, id, userId, data, IF Has(data, "startDate") THEN {} ELSE {"startDate"})
deleteBudget(id, userId) == deleteDoc(budgets, id, userId)

\* POST /api/budgets
PostBudget(uid, body) ==
  /\ budgetSeq < MaxBudgets
  /\ IF budgetSchema(WithUserId(body, uid))
       THEN /\ budgets' = createBudget(WithUserId(body, uid))
            /\ budgetSeq' = budgetSeq + 1
            /\ status' = 200
       ELSE /\ status' = 400
            /\ UNCHANGED <<budgets, budgetSeq>>
  /\ UNCHANGED <<categories, transactions, savingsGoals, catSeq, txnSeq, goalSeq, aux>>

\* PUT /api/budgets/:id
PutBudget(uid, id, body) ==
  /\ IF ~budgetSchemaPartial(body)
       THEN status' = 400 /\ UNCHANGED budgets
       ELSE /\ budgets' = updateBudget(id, uid, body).coll
            /\ status' = StatusOf(updateBudget(id, uid, body))
  /\ UNCHANGED <<categories, transactions, savingsGoals, seqs, aux>>

\* DELETE /api/budgets/:id
DeleteBudget(uid, id) ==
  /\ budgets' = deleteBudget(id, uid).coll
  /\ status' = StatusOf(deleteBudget(id, uid))
  /\ UNCHANGED <<categories, transactions, savingsGoals, seqs, aux>>

\* ------------------------------------------------- savings goal routes
\* A value of type `Date | null`.
NoDate == [k |-> "null", t |-> 0]
DateVal(t) == [k |-> "date", t |-> t]

\* savingsGoalSchema (targetAmount positive, currentAmount min(0).default(0),
\* completed default(false))
ValidGoalField(body, f) ==
  CASE f = "targetAmount" -> body.targetAmount > 0
    [] f = "currentAmount" -> body.currentAmount >= 0
    [] OTHER -> TRUE
savingsGoalSchema(body) ==
  /\ {"userId", "targetAmount"} \subseteq body.keys
  /\ \A f \in body.keys : ValidGoalField(body, f)
savingsGoalSchemaPartial(body) == \A f \in body.keys : ValidGoalField(body, f)

\* createSavingsGoal: currentAmount || 0, completed || false, targetDate || null
createSavingsGoal(data) ==
  AddDoc(savingsGoals, GoalId(goalSeq + 1),
         [userId |-> data.userId,
          targetAmount |-> data.targetAmount,
          currentAmount |-> IF Has(data, "currentAmount") THEN data.currentAmount ELSE 0,
          completed |-> IF Has(data, "completed") THEN data.completed ELSE FALSE,
          targetDate |-> IF Has(data, "targetDate") THEN data.targetDate ELSE NoDate])

\* targetDate: req.body.targetDate ? new Date(req.body.targetDate) : null
WithTargetDateOrNull(body) ==
  IF Has(body, "targetDate") /\ body.targetDate.k = "date" THEN body
  ELSE [body EXCEPT !.keys = @ \cup {"targetDate"}, !.targetDate = NoDate]

\* Mutation: an update that leaves the goal's currentAmount at or above its
\* targetAmount also marks the goal completed.
updateSavingsGoalAutoComplete(id, userId, data) ==
  LET r == updateDoc(savingsGoals, id, userId, data, {})
  IN IF r.ret /\ r.coll[id].currentAmount >= r.coll[id].targetAmount
       THEN Done([r.coll EXCEPT ![id].completed = TRUE])
       ELSE r

updateSavingsGoal(id, userId, data) == updateDoc(savingsGoals, id, userId, data, {})
deleteSavingsGoal(id, userId) == deleteDoc(savingsGoals, id, userId)

\* POST /api/savings-goals
PostSavingsGoal(uid, body) ==
  /\ goalSeq < MaxGoals
  /\ IF savingsGoalSchema(WithUserId(body, uid))
       THEN /\ savingsGoals' = createSavingsGoal(WithUserId(body, uid))
            /\ goalSeq' = goalSeq + 1
            /\ status' = 200
       ELSE /\ status' = 400
            /\ UNCHANGED <<savingsGoals, goalSeq>>
  /\ UNCHANGED <<categories, transactions, budgets, catSeq, txnSeq, budgetSeq, aux>>

\* PUT /api/savings-goals/:id
PutSavingsGoal(uid, id, body) ==
  /\ IF ~savingsGoalSchemaPartial(WithTargetDateOrNull(body))
       THEN status' = 400 /\ UNCHANGED savingsGoals
       ELSE /\ savingsGoals' = updateSavingsGoal(id, uid, WithTargetDateOrNull(body)).coll
            /\ status' = StatusOf(updateSavingsGoal(id, uid, WithTargetDateOrNull(body)))
  /\ UNCHANGED <<categories, transactions, budgets, seqs, aux>>

\* DELETE /api/savings-goals/:id
DeleteSavingsGoal(uid, id) ==
  /\ savingsGoals' = deleteSavingsGoal(id, uid).coll
  /\ status' = StatusOf(deleteSavingsGoal(id, uid))
  /\ UNCHANGED <<categories, transactions, budgets, seqs, aux>>

\* ------------------------------------------------- storage: user profiles
\* A document of "users" is a function from the names of its fields to their
\* values.  userRef.set(data) replaces the document, userRef.update(data)
\* overwrites the fields of data and keeps the others.
SetUser(userId, data) ==
  [u \in DOMAIN users \cup {userId} |-> IF u = userId THEN data ELSE users[u]]
MergeFields(doc, data) ==
  [f \in DOMAIN doc \cup DOMAIN data |-> IF f \in DOMAIN data THEN data[f] ELSE doc[f]]
UpdateUser(userId, data) == [users EXCEPT ![userId] = MergeFields(@, data)]

\* FieldValue.serverTimestamp() in a write: the time the write is applied.
WithTimestamps(data, fields, time) ==
  MergeFields(data, [f \in fields |-> time])

\* adminAuth.getUser(userId).email || null
EmailOf(userId) == Str(userId)

\* upsertUserProfile(userId, profileData), one step per await.
\* The call begins: dataToSet = { ...profileData, updatedAt: now }.
UpsertBegin(c, userId, profileData) ==
  /\ upserts[c].pc = "idle"
  /\ upserts' = [upserts EXCEPT ![c] = [pc |-> "get", userId |-> userId, dataToSet |-> profileData]]
  /\ UNCHANGED <<stores, seqs, status, request, storageCall, response, view, client,
                 users, serverTime>>

\* const docSnap = await userRef.get(); the branch on docSnap.exists
UpsertGet(c) ==
  /\ upserts[c].pc = "get"
  /\ upserts' = [upserts EXCEPT
                   ![c].pc = IF upserts[c].userId \in DOMAIN users THEN "update" ELSE "getUser"]
  /\ UNCHANGED <<stores, seqs, status, request, storageCall, response, view, client,
                 users, serverTime>>

\* await userRef.update(dataToSet)
UpsertUpdate(c) ==
  /\ upserts[c].pc = "update"
  /\ users' = UpdateUser(upserts[c].userId,
                         WithTimestamps(upserts[c].dataToSet, {"updatedAt"}, serverTime + 1))
  /\ serverTime' = serverTime + 1
  /\ upserts' = [upserts EXCEPT ![c].pc = "read"]
  /\ UNCHANGED <<stores, seqs, status, request, storageCall, response, view, client>>

\* dataToSet.createdAt = now; const firebaseUser = await adminAuth.getUser(userId);
\* dataToSet.email = firebaseUser.email || null
UpsertGetUser(c) ==
  /\ upserts[c].pc = "getUser"
  /\ upserts' = [upserts EXCEPT
                   ![c].pc = "set",
                   ![c].dataToSet = MergeFields(@, [f \in {"email"} |-> EmailOf(upserts[c].userId)])]
  /\ UNCHANGED <<stores, seqs, status, request, storageCall, response, view, client,
                 users, serverTime>>

\* await userRef.set(dataToSet)
UpsertSet(c) ==
  /\ upserts[c].pc = "set"
  /\ users' = SetUser(upserts[c].userId,
                      WithTimestamps(upserts[c].dataToSet, {"updatedAt", "createdAt"}, serverTime + 1))
  /\ serverTime' = serverTime + 1
  /\ upserts' = [upserts EXCEPT ![c].pc = "read"]
  /\ UNCHANGED <<stores, seqs, status, request, storageCall, response, view, client>>

\* const updatedDocSnap = await userRef.get(); the call returns the profile.
UpsertReturn(c) ==
  /\ upserts[c].pc = "read"
  /\ upserts' = [upserts EXCEPT ![c].pc = "done"]
  /\ UNCHANGED <<stores, seqs, status, request, storageCall, response, view, client,
                 users, serverTime>>

\* ------------------------------------------------- storage: reads
\* Position of a document id in Firestore's order of document ids.
DocNo(id) == CHOOSE n \in 1..(MaxTxns + MaxCats + MaxBudgets + MaxGoals) :
               id \in {TxnId(n), CatId(n), BudgetId(n), GoalId(n)}

\* The category document joined onto a transaction or a budget: fetched by
\* id when categoryId is truthy; <<>> stands for `category: undefined`.
JoinCategory(db, catId) ==
  IF Truthy(catId) /\ catId.s \in DOMAIN db.categories
    THEN <<[id |-> catId.s, doc |-> db.categories[catId.s]]>>
    ELSE <<>>

\* orderBy(field, "desc"): key[i] = <<field value, position of the id>>, the
\* order Firestore sorts by (the field, then the document id).
KeyLess(a, b) == a[1] < b[1] \/ (a[1] = b[1] /\ a[2] < b[2])

RECURSIVE OrderDesc(_, _)
OrderDesc(ids, key) ==
  IF ids = {} THEN <<>>
  ELSE LET top == CHOOSE i \in ids : \A k \in ids : ~KeyLess(key[i], key[k])
       IN <<top>> \o OrderDesc(ids \ {top}, key)

\* createdAt is the server time of the add: documents sort by creation.
CreatedAtKey(ids) == [i \in ids |-> <<DocNo(i), 0>>]
DateKey(db, ids) == [i \in ids |-> <<db.transactions[i].date, DocNo(i)>>]

\* getCategories(userId): where userId ==, orderBy createdAt desc
getCategories(db, userId) ==
  LET ids == {i \in DOMAIN db.categories : db.categories[i].userId = userId}
      order == OrderDesc(ids, CreatedAtKey(ids))
  IN [n \in 1..Len(order) |-> [id |-> order[n], doc |-> db.categories[order[n]]]]

TxnRows(db, order) ==
  [n \in 1..Len(order) |->
     [id |-> order[n], doc |-> db.transactions[order[n]],
      category |-> JoinCategory(db, db.transactions[order[n]].categoryId)]]

\* getTransactions(userId, limit): where userId ==, orderBy date desc, and
\* limit(limit) when limit is truthy (0 stands for no limit).
getTransactions(db, userId, limit) ==
  LET ids == {i \in DOMAIN db.transactions : db.transactions[i].userId = userId}
      rows == TxnRows(db, OrderDesc(ids, DateKey(db, ids)))
  IN IF limit # 0 /\ limit < Len(rows) THEN SubSeq(rows, 1, limit) ELSE rows

\* getTransactionsByDateRange(userId, startDate, endDate)
getTransactionsByDateRange(db, userId, startDate, endDate) ==
  LET ids == {i \in DOMAIN db.transactions :
                /\ db.transactions[i].userId = userId
                /\ db.transactions[i].date >= startDate
                /\ db.transactions[i].date <= endDate}
  IN TxnRows(db, OrderDesc(ids, DateKey(db, ids)))

\* getBudgets(userId): where userId ==, orderBy createdAt desc
getBudgets(db, userId) ==
  LET ids == {i \in DOMAIN db.budgets : db.budgets[i].userId = userId}
      order == OrderDesc(ids, CreatedAtKey(ids))
  IN [n \in 1..Len(order) |->
        [id |-> order[n], doc |-> db.budgets[order[n]],
         category |-> JoinCategory(db, db.budgets[order[n]].categoryId)]]

\* getSavingsGoals(userId): where userId ==, orderBy createdAt desc
getSavingsGoals(db, userId) ==
  LET ids == {i \in DOMAIN db.savingsGoals : db.savingsGoals[i].userId = userId}
      order == OrderDesc(ids, CreatedAtKey(ids))
  IN [n \in 1..Len(order) |-> [id |-> order[n], doc |-> db.savingsGoals[order[n]]]]

\* ------------------------------------------------- analytics
\* adminDb: the collections the read operations query, now and after the step.
adminDb == [categories |-> categories, transactions |-> transactions,
            budgets |-> budgets, savingsGoals |-> savingsGoals]
adminDbNext == [categories |-> categories', transactions |-> transactions',
                budgets |-> budgets', savingsGoals |-> savingsGoals']

\* .where("userId", "==", userId).where("date", ">=", startDate)
\* .where("date", "<=", endDate): the ids of the matching documents.
MatchingTxns(db, userId, startDate, endDate) ==
  {id \in DOMAIN db.transactions :
     /\ db.transactions[id].userId = userId
     /\ db.transactions[id].date >= startDate
     /\ db.transactions[id].date <= endDate}

\* .get() of a query with a range filter on date: Firestore returns the documents
\* ordered by date and then by document id.
RECURSIVE OrderByDate(_, _)
OrderByDate(txs, ids) ==
  IF ids = {} THEN <<>>
  ELSE LET first == CHOOSE i \in ids : \A k \in ids :
                      \/ txs[i].date < txs[k].date
                      \/ txs[i].date = txs[k].date /\ DocNo(i) <= DocNo(k)
       IN <<txs[first]>> \o OrderByDate(txs, ids \ {first})

QueryTxns(db, userId, startDate, endDate) ==
  OrderByDate(db.transactions, MatchingTxns(db, userId, startDate, endDate))

\* The forEach of getMonthlyBalance: income += amount / expenses += amount.
RECURSIVE SumOfType(_, _)
SumOfType(docs, type) ==
  IF docs = <<>> THEN 0
  ELSE (IF Head(docs).type = type THEN Head(docs).amount ELSE 0) + SumOfType(Tail(docs), type)

\* The last instant getMonthlyBalance asks for: day 0 of the next month.
MonthEndDate(year, jsMonth) == NewDate(year, jsMonth + 1, 0)

\* getMonthlyBalance(userId, year, month)
getMonthlyBalance(db, userId, year, month) ==
  LET jsMonth == month - 1
      startDate == NewDate(year, jsMonth, 1)
      endDate == MonthEndDate(year, jsMonth)
      docs == QueryTxns(db, userId, startDate, endDate)
      income == SumOfType(docs, "income")
      expenses == SumOfType(docs, "expense")
  IN [income |-> income, expenses |-> expenses, balance |-> income - expenses]

\* `${transaction.categoryId || 'uncategorized'}-${transaction.type}`
TotalsKey(t) == (IF Truthy(t.categoryId) THEN t.categoryId.s ELSE "uncategorized") \o "-" \o t.type

\* categoriesMap: the category documents fetched by id for every truthy
\* categoryId of the snapshot, whoever owns them.
InCategoriesMap(db, catId) == Truthy(catId) /\ catId.s \in DOMAIN db.categories

\* Mutation: a categoryId that resolves to no category is named like a missing one.
TotalsNameNoUnknown(db, t) ==
  IF InCategoriesMap(db, t.categoryId) THEN db.categories[t.categoryId.s].name
  ELSE "Uncategorized"

\* category ? category.name : (transaction.categoryId ? 'Unknown Category' : 'Uncategorized')
TotalsName(db, t) ==
  IF InCategoriesMap(db, t.categoryId) THEN db.categories[t.categoryId.s].name
  ELSE IF Truthy(t.categoryId) THEN "Unknown Category" ELSE "Uncategorized"

\* Mutation: the entry's total is overwritten instead of added to.
AddToEntryOverwrite(entry, t) == [entry EXCEPT !.total = t.amount]

\* existingTotal.total += transaction.amount
AddToEntry(entry, t) == [entry EXCEPT !.total = @ + t.amount]

\* The forEach over the snapshot that fills categoryTotalsMap; `acc` is the
\* map as the sequence of its entries in insertion order.
RECURSIVE TotalsFold(_, _, _)
TotalsFold(db, docs, acc) ==
  IF docs = <<>> THEN acc
  ELSE LET t == Head(docs)
           key == TotalsKey(t)
       IN IF \E i \in 1..Len(acc) : acc[i].key = key
            THEN TotalsFold(db, Tail(docs),
                   [i \in 1..Len(acc) |->
                      IF acc[i].key = key THEN AddToEntry(acc[i], t) ELSE acc[i]])
            ELSE TotalsFold(db, Tail(docs),
                   Append(acc, [key |-> key, total |-> t.amount, type |-> t.type,
                                categoryName |-> TotalsName(db, t),
                                categoryId |-> IF Truthy(t.categoryId) THEN t.categoryId ELSE Null]))

\* Array.from(categoryTotalsMap.values())
MapValues(acc) ==
  [i \in 1..Len(acc) |-> [total |-> acc[i].total, type |-> acc[i].type,
                          categoryName |-> acc[i].categoryName,
                          categoryId |-> acc[i].categoryId]]

\* getCategoryTotals(userId, startDate, endDate)
getCategoryTotals(db, userId, startDate, endDate) ==
  MapValues(TotalsFold(db, QueryTxns(db, userId, startDate, endDate), <<>>))

\* ------------------------------------------------- analytics routes
\* !value of a req.query value: absent or the empty string.
QTruthy(v) == v.k = "string" /\ v.c # <<>>

IsDigit(ch) == ch \in {"0", "1", "2", "3", "4", "5", "6", "7", "8", "9"}
DigitVal(ch) ==
  CASE ch = "0" -> 0 [] ch = "1" -> 1 [] ch = "2" -> 2 [] ch = "3" -> 3 [] ch = "4" -> 4
    [] ch = "5" -> 5 [] ch = "6" -> 6 [] ch = "7" -> 7 [] ch = "8" -> 8 [] ch = "9" -> 9

\* The digits a string starts with, read in base 10; NaN when there are none.
RECURSIVE ParseDigits(_, _, _)
ParseDigits(chars, acc, seen) ==
  IF chars = <<>> \/ ~IsDigit(Head(chars))
    THEN (IF seen THEN Num(acc) ELSE NaN)
    ELSE ParseDigits(Tail(chars), 10 * acc + DigitVal(Head(chars)), TRUE)

RECURSIVE SkipSpaces(_)
SkipSpaces(chars) ==
  IF chars # <<>> /\ Head(chars) = " " THEN SkipSpaces(Tail(chars)) ELSE chars

\* parseInt(string): leading white space, an optional sign, then digits up to
\* the first character that is not one.
parseInt(chars) ==
  LET str == SkipSpaces(chars)
      signed == str # <<>> /\ Head(str) \in {"-", "+"}
      digits == ParseDigits(IF signed THEN Tail(str) ELSE str, 0, FALSE)
  IN IF signed /\ Head(str) = "-" /\ digits.k = "number" THEN Num(0 - digits.n) ELSE digits

\* new Date(string) for the strings the client sends, "YYYY-MM-DD": midnight
\* of that day (a day past the end of the month, up to 31, rolls over into the
\* next month as in Node); anything else is an Invalid Date.
ParseDate(chars) ==
  IF /\ Len(chars) = 10
     /\ chars[5] = "-" /\ chars[8] = "-"
     /\ \A i \in {1, 2, 3, 4, 6, 7, 9, 10} : IsDigit(chars[i])
    THEN LET y == ParseDigits(SubSeq(chars, 1, 4), 0, FALSE).n
             m == ParseDigits(SubSeq(chars, 6, 7), 0, FALSE).n
             d == ParseDigits(SubSeq(chars, 9, 10), 0, FALSE).n
         IN IF m \in 1..12 /\ d \in 1..31 THEN DateOf(NewDate(y, m - 1, d)) ELSE InvalidDate
    ELSE InvalidDate

\* What a storage aggregation hands back: its value, or undefined from the catch.
Returned(v) == [k |-> "value", v |-> v]
ReturnedUndefined == [k |-> "undefined", v |-> <<>>]

\* The outcomes of a Firestore read the environment decides.
Reads == {"ok", "throws"}

\* getMonthlyBalance with its try/catch. With a NaN year or month the bounds
\* are Invalid Dates: the query either throws or matches nothing.
getMonthlyBalanceRead(db, userId, year, month, reads) ==
  IF reads = "throws" THEN ReturnedUndefined
  ELSE IF year.k = "NaN" \/ month.k = "NaN"
    THEN Returned([income |-> 0, expenses |-> 0, balance |-> 0])
  ELSE Returned(getMonthlyBalance(db, userId, year.n, month.n))

\* getCategoryTotals with its try/catch.
getCategoryTotalsRead(db, userId, startDate, endDate, reads) ==
  IF reads = "throws" THEN ReturnedUndefined
  ELSE IF startDate.k = "InvalidDate" \/ endDate.k = "InvalidDate" THEN Returned(<<>>)
  ELSE Returned(getCategoryTotals(db, userId, startDate.n, endDate.n))

\* Mutation: what is sent depends on how the previous request was answered.
JsonResponseAfterError(kind, result) ==
  IF result.k = "undefined" THEN [kind |-> "empty", status |-> 200, body |-> <<>>, readFrom |-> stores]
  ELSE [kind |-> kind, status |-> 200, body |-> IF status = 400 THEN <<>> ELSE result.v,
        readFrom |-> stores]

\* res.json(value): status 200; undefined is sent as an empty body.
JsonResponse(kind, result) ==
  IF result.k = "undefined" THEN [kind |-> "empty", status |-> 200, body |-> <<>>, readFrom |-> stores]
  ELSE [kind |-> kind, status |-> 200, body |-> result.v, readFrom |-> stores]

\* res.status(400).json({ message })
MessageResponse == [kind |-> "message", status |-> 400, body |-> <<>>, readFrom |-> stores]

\* Mutation: the request is refused only when both parameters are missing.
MissingYearAndMonth(q) == ~QTruthy(q.a) /\ ~QTruthy(q.b)

\* if (!year || !month)
MissingYearOrMonth(q) == ~QTruthy(q.a) \/ ~QTruthy(q.b)

\* if (!startDate || !endDate || typeof startDate !== 'string' || ...)
MissingStartOrEnd(q) == ~QTruthy(q.a) \/ ~QTruthy(q.b)

\* GET /api/analytics/monthly-balance?year=..&month=..
GetMonthlyBalance(uid, q, reads) ==
  /\ request' = [route |-> "monthly-balance", uid |-> uid, a |-> q.a, b |-> q.b]
  /\ IF MissingYearOrMonth(q)
       THEN /\ status' = MessageResponse.status
            /\ storageCall' = NoCall
            /\ response' = MessageResponse
       ELSE LET year == parseInt(q.a.c)
                month == parseInt(q.b.c)
                balance == getMonthlyBalanceRead(adminDb, uid, year, month, reads)
            IN /\ storageCall' = [fn |-> "getMonthlyBalance", x |-> year, y |-> month,
                                  threw |-> balance.k = "undefined"]
               /\ status' = JsonResponse("balance", balance).status
               /\ response' = JsonResponse("balance", balance)
  /\ UNCHANGED <<stores, seqs, view, client, profiles>>

\* GET /api/analytics/category-totals?startDate=..&endDate=..
GetCategoryTotals(uid, q, reads) ==
  /\ request' = [route |-> "category-totals", uid |-> uid, a |-> q.a, b |-> q.b]
  /\ IF MissingStartOrEnd(q)
       THEN /\ status' = MessageResponse.status
            /\ storageCall' = NoCall
            /\ response' = MessageResponse
       ELSE LET startDate == ParseDate(q.a.c)
                endDate == ParseDate(q.b.c)
                totals == getCategoryTotalsRead(adminDb, uid, startDate, endDate, reads)
            IN /\ storageCall' = [fn |-> "getCategoryTotals", x |-> startDate, y |-> endDate,
                                  threw |-> totals.k = "undefined"]
               /\ status' = JsonResponse("totals", totals).status
               /\ response' = JsonResponse("totals", totals)
  /\ UNCHANGED <<stores, seqs, view, client, profiles>>

\* ------------------------------------------------- Budget and Goals pages
\* a / b
Divide(a, b) ==
  IF b > 0 THEN Ratio(a, b)
  ELSE IF b < 0 THEN Ratio(0 - a, 0 - b)
  ELSE IF a > 0 THEN PosInfinity
  ELSE IF a < 0 THEN NegInfinity
  ELSE NotANumber

\* x * 100
Times100(x) == IF x.k = "finite" THEN Ratio(100 * x.n, x.d) ELSE x

\* Mutation: the thresholds are exclusive.
MoreThan(x, c) ==
  CASE x.k = "finite" -> x.n > c * x.d
    [] x.k = "Infinity" -> TRUE
    [] OTHER -> FALSE

\* x >= c (false for NaN)
AtLeast(x, c) ==
  CASE x.k = "finite" -> x.n >= c * x.d
    [] x.k = "Infinity" -> TRUE
    [] OTHER -> FALSE

\* x < c and x <= c (false for NaN)
LessThan(x, c) ==
  CASE x.k = "finite" -> x.n < c * x.d
    [] x.k = "-Infinity" -> TRUE
    [] OTHER -> FALSE
AtMost(x, c) ==
  CASE x.k = "finite" -> x.n <= c * x.d
    [] x.k = "-Infinity" -> TRUE
    [] OTHER -> FALSE

\* getBudgetStatus(spent, total).status
getBudgetStatus(spent, total) ==
  LET percentage == Times100(Divide(spent, total))
  IN IF AtLeast(percentage, 100) THEN "over"
     ELSE IF AtLeast(percentage, 80) THEN "warning"
     ELSE "good"

\* Mutation: the quotient is rounded down.
FloorOf(x) == IF x.k = "finite" THEN Ratio(x.n \div x.d, 1) ELSE x

\* Math.ceil(x)
Ceil(x) == IF x.k = "finite" THEN Ratio(0 - ((0 - x.n) \div x.d), 1) ELSE x

\* deadline.getTime() - today.getTime(): NaN for an Invalid Date.
TimeUntil(deadline, today) ==
  IF deadline.k = "date" THEN Ratio(deadline.n - today, 1) ELSE NotANumber

\* x / (1000 * 3600 * 24), a day being TicksPerDay ticks
InDays(x) == IF x.k = "finite" THEN Ratio(x.n, x.d * TicksPerDay) ELSE x

\* Mutation: the dates are looked at before the progress.
getGoalStatusDateFirst(current, target, targetDate, today) ==
  LET progress == Times100(Divide(current, target))
      daysLeft == Ceil(InDays(TimeUntil(ParseDate(targetDate.c), today)))
  IN IF QTruthy(targetDate) /\ LessThan(daysLeft, 0) THEN "overdue"
     ELSE IF QTruthy(targetDate) /\ AtMost(daysLeft, 30) THEN "urgent"
     ELSE IF AtLeast(progress, 100) THEN "completed"
     ELSE "active"

\* getGoalStatus(current, target, targetDate).status, `today` being new Date()
getGoalStatus(current, target, targetDate, today) ==
  LET progress == Times100(Divide(current, target))
      daysLeft == Ceil(InDays(TimeUntil(ParseDate(targetDate.c), today)))
  IN IF AtLeast(progress, 100) THEN "completed"
     ELSE IF QTruthy(targetDate) /\ LessThan(daysLeft, 0) THEN "overdue"
     ELSE IF QTruthy(targetDate) /\ AtMost(daysLeft, 30) THEN "urgent"
     ELSE "active"

\* A budget card: the badge shows percentage.toFixed(0) in the colours of the status.
RenderBudgetCard ==
  /\ view.fn = "Budget" /\ ~view.done
  /\ view' = [view EXCEPT !.done = TRUE,
                          !.status = getBudgetStatus(view.a, view.b),
                          !.shown = Times100(Divide(view.a, view.b))]
  /\ UNCHANGED <<stores, seqs, status, request, storageCall, response, client, profiles>>

\* A goal card: the badge shows the status, the progress line progress.toFixed(1).
RenderGoalCard ==
  /\ view.fn = "Goals" /\ ~view.done
  /\ view' = [view EXCEPT !.done = TRUE,
                          !.status = getGoalStatus(view.a, view.b, view.targetDate, view.today),
                          !.shown = Times100(Divide(view.a, view.b))]
  /\ UNCHANGED <<stores, seqs, status, request, storageCall, response, client, profiles>>

\* Math.random() * parseFloat(budget.amount): a number in [0, amount); the
\* model draws the whole numbers of that interval.
RandomSpent(amount) == 0..(amount - 1)

\* One draw per budget of the list.
Draws(rows) ==
  {f \in [1..Len(rows) -> 0..MaxTotal] : \A n \in 1..Len(rows) : f[n] \in RandomSpent(rows[n].doc.amount)}

\* x < t / 10 (false for NaN)
LessThanTenths(x, t) ==
  CASE x.k = "finite" -> 10 * x.n < t * x.d
    [] x.k = "-Infinity" -> TRUE
    [] OTHER -> FALSE

\* The "Dentro do Limite" counter: budgets.filter(spent / amount < 0.8).length
WithinLimit(rows, spent) ==
  Cardinality({n \in 1..Len(rows) : LessThanTenths(Divide(spent[n], rows[n].doc.amount), 8)})

\* The "Proximo do Limite" counter: budgets.filter(80 <= percentage < 100).length
NearLimit(rows, spent) ==
  Cardinality({n \in 1..Len(rows) :
                 LET percentage == Times100(Divide(spent[n], rows[n].doc.amount))
                 IN AtLeast(percentage, 80) /\ LessThan(percentage, 100)})

\* The budget cards: each shows its spent amount, its percentage and its status.
BudgetCards(rows, spent) ==
  [n \in 1..Len(rows) |->
     [id |-> rows[n].id,
      spent |-> spent[n],
      percentage |-> Times100(Divide(spent[n], rows[n].doc.amount)),
      status |-> getBudgetStatus(spent[n], rows[n].doc.amount)]]

\* One render of the Budget page over the budgets of useQuery("/api/budgets"):
\* each of the two counters and each card draws its own spent amount.
RenderBudgetPage(uid) ==
  LET rows == getBudgets(adminDb, uid)
  IN /\ \E within \in Draws(rows), near \in Draws(rows), card \in Draws(rows) :
          budgetPage' = [rendered |-> TRUE, data |-> rows,
                         within |-> WithinLimit(rows, within),
                         near |-> NearLimit(rows, near),
                         cards |-> BudgetCards(rows, card)]
     /\ UNCHANGED <<stores, seqs, status, request, storageCall, response, view, reports,
                    profiles, session, cache>>

\* ------------------------------------------------- Reports page
\* number.toString() and string.padStart(2, '0')
DigitChar(d) ==
  CASE d = 0 -> "0" [] d = 1 -> "1" [] d = 2 -> "2" [] d = 3 -> "3" [] d = 4 -> "4"
    [] d = 5 -> "5" [] d = 6 -> "6" [] d = 7 -> "7" [] d = 8 -> "8" [] d = 9 -> "9"
RECURSIVE NumberToString(_)
NumberToString(n) ==
  IF n < 10 THEN <<DigitChar(n)>> ELSE NumberToString(n \div 10) \o <<DigitChar(n % 10)>>
PadStart2(chars) == IF Len(chars) < 2 THEN <<"0">> \o chars ELSE chars

\* `${year}-${month.toString().padStart(2, '0')}-${day}`, day given as its characters
DateString(year, month, day) ==
  NumberToString(year) \o <<"-">> \o PadStart2(NumberToString(month)) \o <<"-">> \o day

\* getDateRange(): the strings startDate and endDate for the selected period.
getDateRange(selectedPeriod, selectedYear, currentMonth) ==
  LET year == parseInt(selectedYear).n
      monthIndex == currentMonth - 4
  IN CASE selectedPeriod = "last-3-months" ->
            [startDate |-> DateString(year + (monthIndex \div 12), (monthIndex % 12) + 1, <<"0", "1">>),
             endDate |-> DateString(year, currentMonth, <<"3", "1">>)]
       [] selectedPeriod = "current-year" ->
            [startDate |-> DateString(year, 1, <<"0", "1">>),
             endDate |-> DateString(year, 12, <<"3", "1">>)]
       [] OTHER ->
            [startDate |-> DateString(year, currentMonth, <<"0", "1">>),
             endDate |-> DateString(year, currentMonth, <<"3", "1">>)]

\* The Reports page rendered in month `month` of year `year` (new Date()),
\* selectedYear being the current year.
RenderReports(selectedPeriod, year, month) ==
  /\ reports' = [rendered |-> TRUE, period |-> selectedPeriod, year |-> year, month |-> month,
                 startDate |-> QStr(getDateRange(selectedPeriod, NumberToString(year), month).startDate),
                 endDate |-> QStr(getDateRange(selectedPeriod, NumberToString(year), month).endDate)]
  /\ UNCHANGED <<stores, seqs, status, request, storageCall, response, view, budgetPage,
                 profiles, session, cache>>

\* useQuery(["/api/analytics/category-totals", { startDate, endDate }]) of the
\* page as rendered, answered by the route.
FetchCategoryTotals(uid) ==
  /\ reports.rendered
  /\ GetCategoryTotals(uid, [a |-> reports.startDate, b |-> reports.endDate], "ok")

\* ------------------------------------------------- Router
\* The addresses of the application, and one that no route names.
Paths == {"/", "/login", "/register", "/transacoes", "/orcamento", "/metas", "/relatorios", "/nada"}

\* The inner <Switch> of the authenticated branch.
ProtectedPage(location) ==
  CASE location = "/" -> "Dashboard"
    [] location = "/transacoes" -> "Transactions"
    [] location = "/orcamento" -> "Budget"
    [] location = "/metas" -> "Goals"
    [] location = "/relatorios" -> "Reports"
    [] OTHER -> "NotFound"

\* Mutation: the Router has no `if (isLoading)` branch.
RouterWithoutLoading(isAuthenticated, isLoading, location) ==
  IF location = "/login" THEN (IF isAuthenticated THEN "Redirect" ELSE "LoginPage")
  ELSE IF location = "/register" THEN (IF isAuthenticated THEN "Redirect" ELSE "RegisterPage")
  ELSE IF isAuthenticated THEN ProtectedPage(location)
  ELSE IF location = "/" THEN "Landing"
  ELSE "Redirect"

\* Router(): what is rendered at `location`; "Redirect" is <Redirect to="/" />.
\* <Switch> renders its first child that matches: /login, /register, then
\* <Layout> (no path: always) for an authenticated user, or Landing at "/"
\* and the redirect elsewhere.
Router(isAuthenticated, isLoading, location) ==
  IF isLoading THEN "Loading"
  ELSE IF location = "/login" THEN (IF isAuthenticated THEN "Redirect" ELSE "LoginPage")
  ELSE IF location = "/register" THEN (IF isAuthenticated THEN "Redirect" ELSE "RegisterPage")
  ELSE IF isAuthenticated THEN ProtectedPage(location)
  ELSE IF location = "/" THEN "Landing"
  ELSE "Redirect"

\* isAuthenticated: !!user
IsAuthenticated(hook) == hook.user # Null

\* The Router rendered over the state of useAuth at a location.
Rendered(hook, location) ==
  [location |-> location, screen |-> Router(IsAuthenticated(hook), hook.isLoading, location)]

\* ------------------------------------------------- useAuth
\* firebaseUser.getIdToken(): an ID token issued for that user.
getIdToken(user) == Str("id-token-of-" \o user.s)

\* At most MaxPending auth callbacks wait for their token at a time.
MaxPending == 2

\* onAuthStateChanged's callback up to its first await: setUser(firebaseUser),
\* then getIdToken() is pending, or for null setFirebaseToken(null) and
\* setIsLoading(false).  Firebase calls it when the signed-in user becomes
\* known and whenever it changes (sign-in, signOut(auth) of handleLogout).
OnAuthStateChanged(firebaseUser) ==
  /\ firebaseUser # firebaseAuth
  /\ firebaseUser # Null => Len(callbacks) < MaxPending
  /\ firebaseAuth' = firebaseUser
  /\ authHook' = IF firebaseUser # Null
                   THEN [authHook EXCEPT !.user = firebaseUser]
                   ELSE [user |-> Null, firebaseToken |-> Null, isLoading |-> FALSE]
  /\ callbacks' = IF firebaseUser # Null THEN Append(callbacks, firebaseUser) ELSE callbacks
  /\ router' = Rendered(authHook', router.location)
  /\ UNCHANGED <<stores, seqs, status, request, storageCall, response, view, budgetPage,
                 reports, profiles, cache>>

Without(seq, i) == SubSeq(seq, 1, i - 1) \o SubSeq(seq, i + 1, Len(seq))

\* The getIdToken() of the i-th waiting callback resolves:
\* setFirebaseToken(token); setIsLoading(false).
GetIdTokenResolved(i) ==
  /\ i \in 1..Len(callbacks)
  /\ authHook' = [authHook EXCEPT !.firebaseToken = getIdToken(callbacks[i]), !.isLoading = FALSE]
  /\ callbacks' = Without(callbacks, i)
  /\ router' = Rendered(authHook', router.location)
  /\ UNCHANGED <<stores, seqs, status, request, storageCall, response, view, budgetPage,
                 reports, profiles, cache, firebaseAuth>>

\* It rejects: setFirebaseToken(null); setIsLoading(false).
GetIdTokenRejected(i) ==
  /\ i \in 1..Len(callbacks)
  /\ authHook' = [authHook EXCEPT !.firebaseToken = Null, !.isLoading = FALSE]
  /\ callbacks' = Without(callbacks, i)
  /\ router' = Rendered(authHook', router.location)
  /\ UNCHANGED <<stores, seqs, status, request, storageCall, response, view, budgetPage,
                 reports, profiles, cache, firebaseAuth>>

\* The user opens an address or follows a link.
Navigate(location) ==
  /\ location # router.location
  /\ router' = Rendered(authHook, location)
  /\ UNCHANGED <<stores, seqs, status, request, storageCall, response, view, budgetPage,
                 reports, profiles, cache, firebaseAuth, authHook, callbacks>>

\* <Redirect to="/" /> navigates once it is rendered.
FollowRedirect ==
  /\ router.screen = "Redirect"
  /\ router' = Rendered(authHook, "/")
  /\ UNCHANGED <<stores, seqs, status, request, storageCall, response, view, budgetPage,
                 reports, profiles, cache, firebaseAuth, authHook, callbacks>>

\* ------------------------------------------------- transaction mutations of the client
\* The signed-in user of the client.
ClientUser == "u1"

\* A query is fetched when it is first used and again after it was
\* invalidated; its data is computed from the transactions stored then.
FetchQuery(key) ==
  /\ ~queryCache[key].fetched \/ queryCache[key].invalidated
  /\ queryCache' = [queryCache EXCEPT
                      ![key] = [fetched |-> TRUE, invalidated |-> FALSE, readFrom |-> transactions]]
  /\ UNCHANGED <<stores, seqs, status, request, storageCall, response, view, budgetPage,
                 reports, profiles, session, mutation>>

\* queryClient.invalidateQueries({ queryKey: [key] }) for each key of `keys`
InvalidateQueries(keys) ==
  [key \in QueryKeys |->
     IF key \in keys /\ queryCache[key].fetched
       THEN [queryCache[key] EXCEPT !.invalidated = TRUE]
       ELSE queryCache[key]]

\* onSuccess of transactionMutation (TransactionForm: create and update)
SaveInvalidates ==
  {"/api/transactions", "/api/analytics/monthly-balance", "/api/analytics/category-totals"}

\* onSuccess of deleteTransactionMutation (Transactions page)
DeleteInvalidates == {"/api/transactions"}

\* mutate(): the request is sent; no response yet.
SubmitMutation(kind, id, body) ==
  /\ mutation = NoMutation
  /\ kind = "create" => txnSeq < MaxTxns
  /\ mutation' = [kind |-> kind, id |-> id, body |-> body]
  /\ status' = 0
  /\ UNCHANGED <<stores, seqs, request, storageCall, response, view, budgetPage,
                 reports, profiles, session, queryCache>>

\* The server handles the request of the mutation in flight.
HandleMutation ==
  /\ mutation # NoMutation /\ status = 0
  /\ CASE mutation.kind = "create" -> PostTransaction(ClientUser, mutation.body)
       [] mutation.kind = "update" -> PutTransaction(ClientUser, mutation.id, mutation.body)
       [] OTHER -> DeleteTransaction(ClientUser, mutation.id)

\* apiRequest resolves for a 2xx response and onSuccess runs; it throws
\* otherwise and onError shows a toast.
SettleMutation ==
  /\ mutation # NoMutation /\ status # 0
  /\ queryCache' = IF status # 200 THEN queryCache
                    ELSE IF mutation.kind = "delete" THEN InvalidateQueries(DeleteInvalidates)
                    ELSE InvalidateQueries(SaveInvalidates)
  /\ mutation' = NoMutation
  /\ UNCHANGED <<stores, seqs, status, request, storageCall, response, view, budgetPage,
                 reports, profiles, session>>

\* ------------------------------------------------- firebaseAuthMiddleware
\* The Authorization header is absent or a string, given as its pieces: the
\* piece "Bearer " (with its space), and pieces that do not contain it.
Bearer == "Bearer "

\* authHeader.startsWith('Bearer ')
StartsWithBearer(header) == Len(header.c) > 0 /\ header.c[1] = Bearer

\* authHeader.split('Bearer ')[1] of a header that starts with 'Bearer ':
\* what stands between the first 'Bearer ' and the next one.
RECURSIVE UpToBearer(_)
UpToBearer(pieces) ==
  IF pieces = <<>> \/ Head(pieces) = Bearer THEN <<>>
  ELSE <<Head(pieces)>> \o UpToBearer(Tail(pieces))
IdTokenOf(header) == UpToBearer(Tail(header.c))

\* adminAuth.verifyIdToken(idToken): the decoded token of an ID token that
\* Firebase issued to a user and that has not expired; it throws otherwise.
IssuedTo(u) == <<"token-of-", u>>
Decoded(u) == [threw |-> FALSE, uid |-> u]
Threw == [threw |-> TRUE, uid |-> ""]
verifyIdToken(idToken) ==
  IF \E u \in Users : idToken = IssuedTo(u)
    THEN Decoded(CHOOSE u \in Users : idToken = IssuedTo(u))
    ELSE Threw

\* Mutation: the token is decoded without its signature being verified, so
\* any token that names a user is taken as that user's.
firebaseAuthMiddlewareUnverified(header) ==
  IF ~QTruthy(header) \/ ~StartsWithBearer(header) THEN [status |-> 401, uid |-> ""]
  ELSE IF IdTokenOf(header) = <<>> THEN [status |-> 401, uid |-> ""]
  ELSE IF Len(IdTokenOf(header)) = 2 /\ IdTokenOf(header)[2] \in Users
    THEN [status |-> 0, uid |-> IdTokenOf(header)[2]]
  ELSE [status |-> 403, uid |-> ""]

\* firebaseAuthMiddleware: the status it answers with, or status 0 and the
\* uid of req.user when it calls next().
firebaseAuthMiddleware(header) ==
  IF ~QTruthy(header) \/ ~StartsWithBearer(header) THEN [status |-> 401, uid |-> ""]
  ELSE IF IdTokenOf(header) = <<>> THEN [status |-> 401, uid |-> ""]
  ELSE IF verifyIdToken(IdTokenOf(header)).threw THEN [status |-> 403, uid |-> ""]
  ELSE [status |-> 0, uid |-> verifyIdToken(IdTokenOf(header)).uid]

\* return res.status(401 / 403).json(...): next() is not called.
Unauthorized(header) ==
  /\ firebaseAuthMiddleware(header).status # 0
  /\ status' = firebaseAuthMiddleware(header).status
  /\ UNCHANGED <<stores, seqs, aux>>

\* app.post('/api/categories', firebaseAuthMiddleware, handler) and the like:
\* the handler runs after next(), with req.user set.
CategoriesPost(header, body) ==
  \/ Unauthorized(header)
  \/ /\ firebaseAuthMiddleware(header).status = 0
     /\ PostCategory(firebaseAuthMiddleware(header).uid, body)
CategoriesDelete(header, id) ==
  \/ Unauthorized(header)
  \/ /\ firebaseAuthMiddleware(header).status = 0
     /\ DeleteCategory(firebaseAuthMiddleware(header).uid, id)
TransactionsPost(header, body) ==
  \/ Unauthorized(header)
  \/ /\ firebaseAuthMiddleware(header).status = 0
     /\ PostTransaction(firebaseAuthMiddleware(header).uid, body)
MonthlyBalanceGet(header, q, reads) ==
  \/ Unauthorized(header)
  \/ /\ firebaseAuthMiddleware(header).status = 0
     /\ GetMonthlyBalance(firebaseAuthMiddleware(header).uid, q, reads)

\* ------------------------------------------------- inputs
\* Instants the requests carry as transaction dates: local midnight of the
\* last day of February 2024, a later time that day, and 1 March 2024.
TxnDates == {At(2024, 2, 29, 0), At(2024, 2, 29, 1), At(2024, 3, 1, 0)}
TxnCategoryIds == {Null, Str("uncategorized")} \cup {Str(CatId(n)) : n \in 1..MaxCats}
TxnAmounts == {0, 1, 2}
\* The date of the requests that change another property.
PutDate == At(2024, 2, 29, 1)

\* The months the analytics are asked for.
Months == {<<2024, 2>>, <<2024, 3>>, <<2023, 2>>, <<2023, 12>>}

NoTxnFields == [keys |-> {}, userId |-> "u1", categoryId |-> Null, amount |-> 0, type |-> "expense", date |-> 0]

\* Bodies of POST /api/transactions: every combination of the valid values,
\* and one body the schema rejects (amount 0).
PostTxnBodies ==
  {[keys |-> {"categoryId", "amount", "type", "date"}, userId |-> "u1",
    categoryId |-> c, amount |-> a, type |-> ty, date |-> d] :
     c \in TxnCategoryIds, a \in TxnAmounts \ {0}, ty \in TxTypes, d \in TxnDates}
  \cup {[keys |-> {"categoryId", "amount", "type", "date"}, userId |-> "u1",
          categoryId |-> Null, amount |-> 0, type |-> "expense", date |-> PutDate]}

\* Bodies of PUT /api/transactions/:id: no property, one property without a
\* date, a date alone, and a date with one other property (userId is a key of
\* the partial schema and passes it).
PutTxnBodies ==
  LET dated == [NoTxnFields EXCEPT !.keys = {"date"}, !.date = PutDate]
  IN {[NoTxnFields EXCEPT !.keys = {}], [NoTxnFields EXCEPT !.keys = {"amount"}, !.amount = 2]}
     \cup {[NoTxnFields EXCEPT !.keys = {"date"}, !.date = d] : d \in TxnDates}
     \cup {[dated EXCEPT !.keys = @ \cup {"userId"}, !.userId = u] : u \in Users}
     \cup {[dated EXCEPT !.keys = @ \cup {"categoryId"}, !.categoryId = c] : c \in TxnCategoryIds}
     \cup {[dated EXCEPT !.keys = @ \cup {"amount"}, !.amount = a] : a \in TxnAmounts}
     \cup {[dated EXCEPT !.keys = @ \cup {"type"}, !.type = ty] : ty \in TxTypes}

NoCatFields == [keys |-> {}, userId |-> "u1", name |-> "", type |-> "expense"]

PostCatBodies ==
  {[keys |-> {"name", "type"}, userId |-> "u1", name |-> n, type |-> "expense"] :
     n \in CategoryNames \cup {""}}

PutCatBodies ==
  {[NoCatFields EXCEPT !.keys = {}]}
  \cup {[NoCatFields EXCEPT !.keys = {"userId"}, !.userId = u] : u \in Users}
  \cup {[NoCatFields EXCEPT !.keys = {"name"}, !.name = n] : n \in CategoryNames \cup {""}}

CatIds == {CatId(n) : n \in 1..MaxCats}
TxnIds == {TxnId(n) : n \in 1..MaxTxns}

\* ------------------------------------------------- specification
PostCategoryReq == \E uid \in Users, body \in PostCatBodies : PostCategory(uid, body)
PutCategoryReq == \E uid \in Users, id \in CatIds, body \in PutCatBodies : PutCategory(uid, id, body)
DeleteCategoryReq == \E uid \in Users, id \in CatIds : DeleteCategory(uid, id)
PostTransactionReq == \E uid \in Users, body \in PostTxnBodies : PostTransaction(uid, body)
PutTransactionReq == \E uid \in Users, id \in TxnIds, body \in PutTxnBodies : PutTransaction(uid, id, body)
DeleteTransactionReq == \E uid \in Users, id \in TxnIds : DeleteTransaction(uid, id)

Next ==
  \/ PostCategoryReq
  \/ PutCategoryReq
  \/ DeleteCategoryReq
  \/ PostTransactionReq
  \/ PutTransactionReq
  \/ DeleteTransactionReq

Spec == Init /\ [][Next]_vars

\* ------------------------------------------------- the four collections together
\* Requests against all four collections, with fewer values per property than
\* the transaction requests above: one date, one valid and one invalid amount.
CrudDate == At(2024, 3, 1, 0)
BudgetIds == {BudgetId(n) : n \in 1..MaxBudgets}
GoalIds == {GoalId(n) : n \in 1..MaxGoals}
CrudCategoryIds == {Null} \cup {Str(CatId(n)) : n \in 1..MaxCats}

CrudPostCatBodies ==
  {[keys |-> {"name", "type"}, userId |-> "u1", name |-> n, type |-> "expense"] : n \in {"Food", ""}}
CrudPutCatBodies ==
  {[NoCatFields EXCEPT !.keys = {}]}
  \cup {[NoCatFields EXCEPT !.keys = {"userId"}, !.userId = u] : u \in Users}
  \cup {[NoCatFields EXCEPT !.keys = {"name"}, !.name = n] : n \in {"Rent", ""}}

CrudPostTxnBodies ==
  {[keys |-> {"categoryId", "amount", "type", "date"}, userId |-> "u1",
    categoryId |-> c, amount |-> a, type |-> "expense", date |-> CrudDate] :
     c \in CrudCategoryIds, a \in {0, 1}}
CrudPutTxnBodies ==
  LET dated == [NoTxnFields EXCEPT !.keys = {"date"}, !.date = CrudDate]
  IN {[NoTxnFields EXCEPT !.keys = {}], dated,
      [dated EXCEPT !.keys = @ \cup {"amount"}, !.amount = 0]}
     \cup {[dated EXCEPT !.keys = @ \cup {"userId"}, !.userId = u] : u \in Users}
     \cup {[dated EXCEPT !.keys = @ \cup {"categoryId"}, !.categoryId = c] : c \in CrudCategoryIds}

NoBudgetFields == [keys |-> {}, userId |-> "u1", categoryId |-> Null, amount |-> 0, startDate |-> 0]
CrudPostBudgetBodies ==
  {[keys |-> {"categoryId", "amount", "startDate"}, userId |-> "u1",
    categoryId |-> c, amount |-> a, startDate |-> CrudDate] :
     c \in CrudCategoryIds, a \in {0, 1}}
CrudPutBudgetBodies ==
  LET dated == [NoBudgetFields EXCEPT !.keys = {"startDate"}, !.startDate = CrudDate]
  IN {[NoBudgetFields EXCEPT !.keys = {}], dated,
      [dated EXCEPT !.keys = @ \cup {"amount"}, !.amount = 0]}
     \cup {[dated EXCEPT !.keys = @ \cup {"userId"}, !.userId = u] : u \in Users}
     \cup {[dated EXCEPT !.keys = @ \cup {"categoryId"}, !.categoryId = c] : c \in CrudCategoryIds}

NoGoalFields == [keys |-> {}, userId |-> "u1", targetAmount |-> 0, currentAmount |-> 0,
                 completed |-> FALSE, targetDate |-> NoDate]
CrudPostGoalBodies ==
  {[NoGoalFields EXCEPT !.keys = {"targetAmount"}, !.targetAmount = a] : a \in {0, 1}}
  \cup {[NoGoalFields EXCEPT !.keys = {"targetAmount", "currentAmount", "completed", "targetDate"},
                             !.targetAmount = 1, !.currentAmount = 1, !.completed = TRUE,
                             !.targetDate = DateVal(CrudDate)]}
CrudPutGoalBodies ==
  {[NoGoalFields EXCEPT !.keys = {}],
   [NoGoalFields EXCEPT !.keys = {"targetDate"}, !.targetDate = DateVal(CrudDate)],
   [NoGoalFields EXCEPT !.keys = {"targetAmount"}, !.targetAmount = 0]}
  \cup {[NoGoalFields EXCEPT !.keys = {"userId"}, !.userId = u] : u \in Users}
  \cup {[NoGoalFields EXCEPT !.keys = {"currentAmount"}, !.currentAmount = a] : a \in {0, 1}}
  \cup {[NoGoalFields EXCEPT !.keys = {"completed"}, !.completed = b] : b \in BOOLEAN}

CrudPostCategory == \E uid \in Users, body \in CrudPostCatBodies : PostCategory(uid, body)
CrudPutCategory == \E uid \in Users, id \in CatIds, body \in CrudPutCatBodies : PutCategory(uid, id, body)
CrudDeleteCategory == \E uid \in Users, id \in CatIds : DeleteCategory(uid, id)
CrudPostTransaction == \E uid \in Users, body \in CrudPostTxnBodies : PostTransaction(uid, body)
CrudPutTransaction == \E uid \in Users, id \in TxnIds, body \in CrudPutTxnBodies : PutTransaction(uid, id, body)
CrudDeleteTransaction == \E uid \in Users, id \in TxnIds : DeleteTransaction(uid, id)
CrudPostBudget == \E uid \in Users, body \in CrudPostBudgetBodies : PostBudget(uid, body)
CrudPutBudget == \E uid \in Users, id \in BudgetIds, body \in CrudPutBudgetBodies : PutBudget(uid, id, body)
CrudDeleteBudget == \E uid \in Users, id \in BudgetIds : DeleteBudget(uid, id)
CrudPostSavingsGoal == \E uid \in Users, body \in CrudPostGoalBodies : PostSavingsGoal(uid, body)
CrudPutSavingsGoal == \E uid \in Users, id \in GoalIds, body \in CrudPutGoalBodies : PutSavingsGoal(uid, id, body)
CrudDeleteSavingsGoal == \E uid \in Users, id \in GoalIds : DeleteSavingsGoal(uid, id)

NextCrud ==
  \/ CrudPostCategory
  \/ CrudPutCategory
  \/ CrudDeleteCategory
  \/ CrudPostTransaction
  \/ CrudPutTransaction
  \/ CrudDeleteTransaction
  \/ CrudPostBudget
  \/ CrudPutBudget
  \/ CrudDeleteBudget
  \/ CrudPostSavingsGoal
  \/ CrudPutSavingsGoal
  \/ CrudDeleteSavingsGoal

SpecCrud == Init /\ [][NextCrud]_vars

\* ------------------------------------------------- ownership of writes
\* The same twelve routes with the requests reduced to what the ownership
\* checks read: who asks, for which id, and a body that passes the schema.
OwnPutCatBodies ==
  {[NoCatFields EXCEPT !.keys = {}], [NoCatFields EXCEPT !.keys = {"name"}, !.name = "Rent"]}
  \cup {[NoCatFields EXCEPT !.keys = {"userId"}, !.userId = u] : u \in Users}
OwnPutTxnBodies ==
  LET dated == [NoTxnFields EXCEPT !.keys = {"date"}, !.date = CrudDate]
  IN {[NoTxnFields EXCEPT !.keys = {}], dated,
      [dated EXCEPT !.keys = @ \cup {"amount"}, !.amount = 2]}
     \cup {[dated EXCEPT !.keys = @ \cup {"userId"}, !.userId = u] : u \in Users}
OwnPutBudgetBodies ==
  LET dated == [NoBudgetFields EXCEPT !.keys = {"startDate"}, !.startDate = CrudDate]
  IN {[NoBudgetFields EXCEPT !.keys = {}], dated,
      [dated EXCEPT !.keys = @ \cup {"amount"}, !.amount = 2]}
     \cup {[dated EXCEPT !.keys = @ \cup {"userId"}, !.userId = u] : u \in Users}
OwnPutGoalBodies ==
  {[NoGoalFields EXCEPT !.keys = {}], [NoGoalFields EXCEPT !.keys = {"completed"}, !.completed = TRUE]}
  \cup {[NoGoalFields EXCEPT !.keys = {"userId"}, !.userId = u] : u \in Users}

OwnPostCategory ==
  \E uid \in Users :
    PostCategory(uid, [keys |-> {"name", "type"}, userId |-> "u1", name |-> "Food", type |-> "expense"])
OwnPutCategory == \E uid \in Users, id \in CatIds, body \in OwnPutCatBodies : PutCategory(uid, id, body)
OwnDeleteCategory == \E uid \in Users, id \in CatIds : DeleteCategory(uid, id)
OwnPostTransaction ==
  \E uid \in Users :
    PostTransaction(uid, [keys |-> {"categoryId", "amount", "type", "date"}, userId |-> "u1",
                          categoryId |-> Null, amount |-> 1, type |-> "expense", date |-> CrudDate])
OwnPutTransaction == \E uid \in Users, id \in TxnIds, body \in OwnPutTxnBodies : PutTransaction(uid, id, body)
OwnDeleteTransaction == \E uid \in Users, id \in TxnIds : DeleteTransaction(uid, id)
OwnPostBudget ==
  \E uid \in Users :
    PostBudget(uid, [keys |-> {"categoryId", "amount", "startDate"}, userId |-> "u1",
                     categoryId |-> Null, amount |-> 1, startDate |-> CrudDate])
OwnPutBudget == \E uid \in Users, id \in BudgetIds, body \in OwnPutBudgetBodies : PutBudget(uid, id, body)
OwnDeleteBudget == \E uid \in Users, id \in BudgetIds : DeleteBudget(uid, id)
OwnPostSavingsGoal ==
  \E uid \in Users :
    PostSavingsGoal(uid, [NoGoalFields EXCEPT !.keys = {"targetAmount"}, !.targetAmount = 1])
OwnPutSavingsGoal == \E uid \in Users, id \in GoalIds, body \in OwnPutGoalBodies : PutSavingsGoal(uid, id, body)
OwnDeleteSavingsGoal == \E uid \in Users, id \in GoalIds : DeleteSavingsGoal(uid, id)

NextOwn ==
  \/ OwnPostCategory
  \/ OwnPutCategory
  \/ OwnDeleteCategory
  \/ OwnPostTransaction
  \/ OwnPutTransaction
  \/ OwnDeleteTransaction
  \/ OwnPostBudget
  \/ OwnPutBudget
  \/ OwnDeleteBudget
  \/ OwnPostSavingsGoal
  \/ OwnPutSavingsGoal
  \/ OwnDeleteSavingsGoal

SpecOwn == Init /\ [][NextOwn]_vars

\* ------------------------------------------------- the analytics routes over a store
\* Query strings of GET /api/analytics/monthly-balance: year and month absent,
\* empty, numeric, and not numeric.
Y2024 == <<"2", "0", "2", "4">>
Feb01 == QStr(Y2024 \o <<"-", "0", "2", "-", "0", "1">>)
Feb31 == QStr(Y2024 \o <<"-", "0", "2", "-", "3", "1">>)
Mar31 == QStr(Y2024 \o <<"-", "0", "3", "-", "3", "1">>)
NotNumeric == QStr(<<"a", "b", "c">>)
MonthlyQueries ==
  {[a |-> QStr(Y2024), b |-> QStr(<<"2">>)], [a |-> QStr(Y2024), b |-> QStr(<<"3">>)],
   [a |-> NotNumeric, b |-> QStr(<<"2">>)], [a |-> QStr(Y2024), b |-> NotNumeric],
   [a |-> QAbsent, b |-> QStr(<<"2">>)], [a |-> QStr(Y2024), b |-> QAbsent],
   [a |-> QStr(<<>>), b |-> QStr(<<"2">>)], [a |-> QAbsent, b |-> QAbsent]}

\* Query strings of GET /api/analytics/category-totals.
TotalsQueries ==
  {[a |-> Feb01, b |-> Feb31], [a |-> Feb01, b |-> Mar31], [a |-> NotNumeric, b |-> Mar31],
   [a |-> QAbsent, b |-> Mar31], [a |-> Feb01, b |-> QAbsent], [a |-> Feb01, b |-> QStr(<<>>)]}

\* The transactions the aggregations run over.
ReadPostTxnBodies ==
  {[keys |-> {"categoryId", "amount", "type", "date"}, userId |-> "u1",
    categoryId |-> Null, amount |-> a, type |-> ty, date |-> At(2024, 2, 29, 0)] :
     a \in {1, 2}, ty \in TxTypes}

ReadPostTransaction == \E uid \in Users, body \in ReadPostTxnBodies : PostTransaction(uid, body)
ReadGetMonthlyBalance ==
  \E uid \in Users, q \in MonthlyQueries, reads \in Reads : GetMonthlyBalance(uid, q, reads)
ReadGetCategoryTotals ==
  \E uid \in Users, q \in TotalsQueries, reads \in Reads : GetCategoryTotals(uid, q, reads)

NextRead ==
  \/ ReadPostTransaction
  \/ ReadGetMonthlyBalance
  \/ ReadGetCategoryTotals

SpecRead == Init /\ [][NextRead]_vars

\* ------------------------------------------------- the pages over their inputs
\* Amounts spent and budgeted.
Spents == 0..MaxSpent
BudgetTotals == 0..MaxTotal

\* Goals: amounts saved, targets, target dates as the strings "YYYY-MM-DD"
\* (or none, or the empty string, or a string that is no date), and the
\* instant the page is rendered at.
GoalCurrents == {0, 50, 100, 150}
GoalTargets == {0 - 100, 0, 100}
Day(m1, m2, d1, d2) == QStr(Y2024 \o <<"-", m1, m2, "-", d1, d2>>)
Dec01 == QStr(<<"2", "0", "2", "3", "-", "1", "2", "-", "0", "1">>)
GoalDates == {QAbsent, QStr(<<>>), NotNumeric, Dec01,
              Day("0", "1", "0", "1"), Day("0", "1", "3", "1"), Day("0", "2", "0", "1")}
Todays == {At(2024, 1, 1, tick) : tick \in 0..(TicksPerDay - 1)}

BudgetInputs ==
  {[NoView EXCEPT !.fn = "Budget", !.a = spent, !.b = total] :
     spent \in Spents, total \in BudgetTotals}
GoalInputs ==
  {[NoView EXCEPT !.fn = "Goals", !.a = current, !.b = target, !.targetDate = d, !.today = t] :
     current \in GoalCurrents, target \in GoalTargets, d \in GoalDates, t \in Todays}

InitPages ==
  /\ InitStores
  /\ request = NoRequest
  /\ storageCall = NoCall
  /\ response = NoResponse
  /\ view \in BudgetInputs \cup GoalInputs
  /\ InitClient
  /\ InitProfiles

NextPages ==
  \/ RenderBudgetCard
  \/ RenderGoalCard

SpecPages == InitPages /\ [][NextPages]_vars

\* ------------------------------------------------- amounts of transactions
\* Amounts a request can carry: negative, zero, positive, or no number at all.
AmountInputs == {0 - 1, 0, 1, 2}
AmountDate == At(2024, 3, 1, 0)
TextAmount(body) ==
  [f \in DOMAIN body \cup {"notNumbers"} |-> IF f = "notNumbers" THEN {"amount"} ELSE body[f]]

AmountPostBodies ==
  LET numeric == {[keys |-> {"categoryId", "amount", "type", "date"}, userId |-> "u1",
                   categoryId |-> Null, amount |-> a, type |-> ty, date |-> AmountDate] :
                    a \in AmountInputs, ty \in TxTypes}
  IN numeric \cup {TextAmount(b) : b \in {n \in numeric : n.amount = 1 /\ n.type = "expense"}}
AmountPutBodies ==
  LET dated == [NoTxnFields EXCEPT !.keys = {"date", "amount"}, !.date = AmountDate]
      numeric == {[dated EXCEPT !.amount = a] : a \in AmountInputs}
                 \cup {[NoTxnFields EXCEPT !.keys = {"amount"}, !.amount = a] : a \in {0, 2}}
  IN numeric \cup {TextAmount([dated EXCEPT !.amount = 1])}

\* The amount of the body is zero, negative or not a number.
BadAmount(body) == ~IsNumber(body, "amount") \/ body.amount <= 0

AmountPostTransaction == \E uid \in Users, body \in AmountPostBodies : PostTransaction(uid, body)
AmountPutTransaction ==
  \E uid \in Users, id \in TxnIds, body \in AmountPutBodies : PutTransaction(uid, id, body)

NextAmounts ==
  \/ AmountPostTransaction
  \/ AmountPutTransaction

SpecAmounts == Init /\ [][NextAmounts]_vars

\* ------------------------------------------------- vocabulary of the properties
\* The instant t falls on a calendar day of month m of year y.
InMonth(t, y, m) ==
  /\ DaysFromCivil(y, m) <= DayOf(t)
  /\ DayOf(t) < DaysFromCivil(y, m) + DaysInMonth(y, m)

RECURSIVE SumAmounts(_, _)
SumAmounts(txs, ids) ==
  IF ids = {} THEN 0
  ELSE LET i == CHOOSE x \in ids : TRUE IN txs[i].amount + SumAmounts(txs, ids \ {i})

\* The user's stored transactions of a type dated in a month.
TxnsInMonth(userId, type, y, m) ==
  {id \in DOMAIN transactions :
     /\ transactions[id].userId = userId
     /\ transactions[id].type = type
     /\ InMonth(transactions[id].date, y, m)}

\* The store without one transaction.
WithoutTxn(db, id) == [db EXCEPT !.transactions = DeleteDoc(@, id)]

\* The records of the store that one user owns.
OwnedBy(coll, userId) == [i \in {j \in DOMAIN coll : coll[j].userId = userId} |-> coll[i]]
RestrictTo(db, userId) ==
  [categories |-> OwnedBy(db.categories, userId),
   transactions |-> OwnedBy(db.transactions, userId),
   budgets |-> OwnedBy(db.budgets, userId),
   savingsGoals |-> OwnedBy(db.savingsGoals, userId)]

\* First and last day of a month as the Date arguments of getCategoryTotals.
MonthRange(y, m) == <<NewDate(y, m - 1, 1), NewDate(y, m, 0)>>
\* The date ranges getCategoryTotals is asked for: the months, and a range
\* that holds every instant of TxnDates.
Ranges == {MonthRange(ym[1], ym[2]) : ym \in Months} \cup {<<At(2024, 2, 1, 0), At(2024, 3, 31, 0)>>}

RECURSIVE SumTotals(_, _)
SumTotals(entries, type) ==
  IF entries = <<>> THEN 0
  ELSE (IF Head(entries).type = type THEN Head(entries).total ELSE 0)
       + SumTotals(Tail(entries), type)

\* The user's stored transactions dated in [startDate, endDate].
TxnsInRange(userId, startDate, endDate) ==
  {id \in DOMAIN transactions :
     /\ transactions[id].userId = userId
     /\ transactions[id].date >= startDate
     /\ transactions[id].date <= endDate}

\* ------------------------------------------------- properties
\* C1: for every user and month, getMonthlyBalance returns income = the sum of
\* amount over the user's income transactions dated in that month, expenses =
\* the same sum over expense transactions, balance = income - expenses (all 0
\* when nothing matches).
C1_BalanceIsSumOverMonth ==
  \A u \in Users, ym \in Months :
    LET r == getMonthlyBalance(adminDb, u, ym[1], ym[2])
        inc == SumAmounts(transactions, TxnsInMonth(u, "income", ym[1], ym[2]))
        exp == SumAmounts(transactions, TxnsInMonth(u, "expense", ym[1], ym[2]))
    IN r.income = inc /\ r.expenses = exp /\ r.balance = inc - exp

\* C2: getMonthlyBalance counts a transaction of the user if and only if its
\* date falls on a calendar day of the month, at any time of day (last day
\* included, first day of the next month excluded).
C2_CountedIffDatedInMonth ==
  \A u \in Users, ym \in Months, id \in DOMAIN transactions :
    transactions[id].userId = u =>
      ((getMonthlyBalance(adminDb, u, ym[1], ym[2])
          # getMonthlyBalance(WithoutTxn(adminDb, id), u, ym[1], ym[2]))
       <=> InMonth(transactions[id].date, ym[1], ym[2]))

C4_OneEntryPerPair ==
  \A u \in Users, r \in Ranges :
    LET totals == getCategoryTotals(adminDb, u, r[1], r[2])
        ids == TxnsInRange(u, r[1], r[2])
        pairs == {<<transactions[id].categoryId, transactions[id].type>> : id \in ids}
    IN /\ Len(totals) = Cardinality(pairs)
       /\ \A p \in pairs : \E i \in 1..Len(totals) :
            /\ totals[i].categoryId = p[1]
            /\ totals[i].type = p[2]
            /\ totals[i].total =
                 SumAmounts(transactions,
                            {id \in ids : /\ transactions[id].categoryId = p[1]
                                          /\ transactions[id].type = p[2]})

\* C5: transactions with categoryId null form an entry named "Uncategorized"
\* with categoryId null, transactions whose categoryId is set but matches no
\* stored category form an entry named "Unknown Category", and the two kinds
\* are never summed into one entry.
C5_NullAndUnknownApart ==
  \A u \in Users, r \in Ranges, ty \in TxTypes :
    LET totals == getCategoryTotals(adminDb, u, r[1], r[2])
        ids == {id \in TxnsInRange(u, r[1], r[2]) : transactions[id].type = ty}
        nulls == {id \in ids : transactions[id].categoryId = Null}
        unknown(c) == {id \in ids : transactions[id].categoryId = c}
    IN /\ nulls # {} =>
            \E i \in 1..Len(totals) :
              /\ totals[i].categoryName = "Uncategorized"
              /\ totals[i].categoryId = Null
              /\ totals[i].type = ty
              /\ totals[i].total = SumAmounts(transactions, nulls)
       /\ \A c \in {transactions[id].categoryId : id \in ids} :
            (c.k = "string" /\ c.s \notin DOMAIN categories) =>
              \E i \in 1..Len(totals) :
                /\ totals[i].categoryName = "Unknown Category"
                /\ totals[i].type = ty
                /\ totals[i].total = SumAmounts(transactions, unknown(c))

\* C6: the list returned by getCategoryTotals is sorted by total, descending.
C6_SortedByTotalDescending ==
  \A u \in Users, r \in Ranges :
    LET totals == getCategoryTotals(adminDb, u, r[1], r[2])
    IN \A i \in 1..(Len(totals) - 1) : totals[i].total >= totals[i + 1].total

\* C7: getMonthlyBalance and getCategoryTotals for user U depend only on the
\* records U owns: the store and its restriction to U's records (two stores
\* that agree on U's records) give the same results.
C7_ResultsDependOnOwnRecordsOnly ==
  \A u \in Users :
    /\ \A ym \in Months :
         getMonthlyBalance(adminDb, u, ym[1], ym[2])
           = getMonthlyBalance(RestrictTo(adminDb, u), u, ym[1], ym[2])
    /\ \A r \in Ranges :
         getCategoryTotals(adminDb, u, r[1], r[2])
           = getCategoryTotals(RestrictTo(adminDb, u), u, r[1], r[2])

\* C10: when deleteCategory(c) succeeds, every transaction is still stored
\* unchanged, getMonthlyBalance returns what it returned before, and for every
\* entry getCategoryTotals returned for c there is afterwards an entry for c
\* with the same type and total, named "Unknown Category".
DeletionKeepsAggregates(c) ==
  /\ transactions' = transactions
  /\ \A u \in Users, ym \in Months :
       getMonthlyBalance(adminDbNext, u, ym[1], ym[2]) = getMonthlyBalance(adminDb, u, ym[1], ym[2])
  /\ \A u \in Users, r \in Ranges :
       LET before == getCategoryTotals(adminDb, u, r[1], r[2])
           after == getCategoryTotals(adminDbNext, u, r[1], r[2])
       IN /\ Len(after) = Len(before)
          /\ \A i \in 1..Len(before) :
               before[i].categoryId = Str(c) =>
                 \E j \in 1..Len(after) :
                   /\ after[j].categoryId = Str(c)
                   /\ after[j].type = before[i].type
                   /\ after[j].total = before[i].total
                   /\ after[j].categoryName = "Unknown Category"

C10_DeleteCategoryKeepsAggregates ==
  [][\A uid \in Users, c \in CatIds :
       (/\ c \in DOMAIN categories
        /\ c \notin DOMAIN categories'
        /\ deleteCategory(c, uid).ret
        /\ DeleteCategory(uid, c)) => DeletionKeepsAggregates(c)]_vars

\* A category was deleted and a stored transaction still references it.
C10_Witness ==
  /\ catSeq >= 1
  /\ CatId(1) \notin DOMAIN categories
  /\ \E u \in Users, r \in Ranges :
       LET totals == getCategoryTotals(adminDb, u, r[1], r[2])
       IN \E i \in 1..Len(totals) :
            totals[i].categoryId = Str(CatId(1)) /\ totals[i].categoryName = "Unknown Category"

\* C8: an update or delete called with (id, userId) where the record does not
\* exist or belongs to another user returns undefined / false and leaves the
\* collection as it is; the route then answers 404 and no stored record changes.
NotOwned(coll, id, userId) == id \notin DOMAIN coll \/ coll[id].userId # userId
Refused(result, coll) == result.ret = FALSE /\ result.coll = coll
Answered404 == status' = 404 /\ stores' = stores

C8_ForeignWriteRefused ==
  [][\A uid \in Users :
       /\ \A id \in CatIds : NotOwned(categories, id, uid) =>
            /\ Refused(deleteCategory(id, uid), categories)
            /\ Answered404 \/ ~DeleteCategory(uid, id)
            /\ \A body \in OwnPutCatBodies :
                 /\ Refused(updateCategory(id, uid, body), categories)
                 /\ Answered404 \/ ~(categorySchemaPartial(body) /\ PutCategory(uid, id, body))
       /\ \A id \in TxnIds : NotOwned(transactions, id, uid) =>
            /\ Refused(deleteTransaction(id, uid), transactions)
            /\ Answered404 \/ ~DeleteTransaction(uid, id)
            /\ \A body \in OwnPutTxnBodies :
                 /\ Refused(updateTransaction(id, uid, body), transactions)
                 /\ Answered404 \/ ~(transactionSchemaPartial(body) /\ PutTransaction(uid, id, body))
       /\ \A id \in BudgetIds : NotOwned(budgets, id, uid) =>
            /\ Refused(deleteBudget(id, uid), budgets)
            /\ Answered404 \/ ~DeleteBudget(uid, id)
            /\ \A body \in OwnPutBudgetBodies :
                 /\ Refused(updateBudget(id, uid, body), budgets)
                 /\ Answered404 \/ ~(budgetSchemaPartial(body) /\ PutBudget(uid, id, body))
       /\ \A id \in GoalIds : NotOwned(savingsGoals, id, uid) =>
            /\ Refused(deleteSavingsGoal(id, uid), savingsGoals)
            /\ Answered404 \/ ~DeleteSavingsGoal(uid, id)
            /\ \A body \in OwnPutGoalBodies :
                 /\ Refused(updateSavingsGoal(id, uid, WithTargetDateOrNull(body)), savingsGoals)
                 /\ Answered404 \/ ~(savingsGoalSchemaPartial(WithTargetDateOrNull(body))
                                      /\ PutSavingsGoal(uid, id, body))]_vars

\* A request was answered 404 while every collection holds a record, so that
\* each of the eight operations had a record of another user to be refused on.
C8_Witness ==
  /\ status = 404
  /\ \E u \in Users :
       /\ \E id \in DOMAIN categories : categories[id].userId # u
       /\ \E id \in DOMAIN transactions : transactions[id].userId # u
       /\ \E id \in DOMAIN budgets : budgets[id].userId # u
       /\ \E id \in DOMAIN savingsGoals : savingsGoals[id].userId # u

\* C9: getCategories, getTransactions, getTransactionsByDateRange, getBudgets
\* and getSavingsGoals called for user U return only records whose userId is
\* U, and every category joined onto a returned transaction or budget has
\* userId U.
OnlyOwnRows(rows, userId) == \A n \in 1..Len(rows) : rows[n].doc.userId = userId
OnlyOwnJoins(rows, userId) ==
  \A n \in 1..Len(rows) : \A j \in 1..Len(rows[n].category) :
    rows[n].category[j].doc.userId = userId

C9_ReadsReturnOnlyOwnData ==
  \A u \in Users :
    /\ OnlyOwnRows(getCategories(adminDb, u), u)
    /\ OnlyOwnRows(getSavingsGoals(adminDb, u), u)
    /\ \A limit \in 0..MaxTxns :
         /\ OnlyOwnRows(getTransactions(adminDb, u, limit), u)
         /\ OnlyOwnJoins(getTransactions(adminDb, u, limit), u)
    /\ \A r \in Ranges :
         /\ OnlyOwnRows(getTransactionsByDateRange(adminDb, u, r[1], r[2]), u)
         /\ OnlyOwnJoins(getTransactionsByDateRange(adminDb, u, r[1], r[2]), u)
    /\ OnlyOwnRows(getBudgets(adminDb, u), u)
    /\ OnlyOwnJoins(getBudgets(adminDb, u), u)

\* C11: a call of getMonthlyBalance or getCategoryTotals leaves every stored
\* record as it is, and a call repeated with the same arguments against the
\* same stored data (both reads succeeding) returns the same output: same
\* entries, same values, same order.
RequestQuery == [a |-> request'.a, b |-> request'.b]
RepeatedRead(kind) ==
  /\ request = request'
  /\ response.kind = kind /\ response'.kind = kind
  /\ response.readFrom = stores

BudgetShown == view.fn = "Budget" /\ view.done
C12_BudgetStatusThresholds ==
  /\ (BudgetShown /\ view.b > 0) =>
       view.status = (IF 100 * view.a >= 100 * view.b THEN "over"
                      ELSE IF 100 * view.a >= 80 * view.b THEN "warning"
                      ELSE "good")
  /\ getBudgetStatus(79, 100) = "good"
  /\ getBudgetStatus(80, 100) = "warning"
  /\ getBudgetStatus(100, 100) = "over"

\* The card of a budget of 100 with 80 spent is shown as a warning.
C12_Witness ==
  BudgetShown /\ view.a = 80 /\ view.b = 100 /\ view.status = "warning"

\* C13: with limit 0 a budget card shows status good and percentage 0 whatever
\* was spent, never NaN or Infinity.
C13_ZeroLimitIsGood ==
  (BudgetShown /\ view.b = 0) =>
    /\ view.status = "good"
    /\ view.shown.k = "finite" /\ view.shown.n = 0

\* C14: a goal card whose current / target * 100 is at least 100 (target > 0)
\* shows completed, whatever the target date is.
GoalShown == view.fn = "Goals" /\ view.done
C14_CompletedBeforeDates ==
  (GoalShown /\ view.b > 0 /\ 100 * view.a >= 100 * view.b) => view.status = "completed"

\* A goal that reached its target is shown completed although its target
\* date, 2023-12-01, has passed.
C14_Witness ==
  GoalShown /\ view.a >= view.b /\ view.b > 0 /\ view.targetDate = Dec01
    /\ view.status = "completed"

\* C15: for a goal below its target, with daysLeft the days from today to the
\* target date rounded up: overdue when daysLeft < 0 (the date is a day or
\* more behind), urgent when 0 <= daysLeft <= 30, active when daysLeft > 30,
\* and active without a target date. On 2024-01-01 the date 2024-01-31 is
\* urgent and 2023-12-01 is overdue.
BelowTarget == GoalShown /\ view.b > 0 /\ view.a < view.b
C15_GoalStatusByDaysLeft ==
  /\ (BelowTarget /\ ~QTruthy(view.targetDate)) => view.status = "active"
  /\ (BelowTarget /\ QTruthy(view.targetDate) /\ ParseDate(view.targetDate.c).k = "date") =>
       LET untilDeadline == ParseDate(view.targetDate.c).n - view.today
       IN view.status = (IF untilDeadline <= 0 - TicksPerDay THEN "overdue"
                         ELSE IF untilDeadline <= 30 * TicksPerDay THEN "urgent"
                         ELSE "active")
  /\ (BelowTarget /\ view.today = At(2024, 1, 1, 0)) =>
       /\ view.targetDate = Day("0", "1", "3", "1") => view.status = "urgent"
       /\ view.targetDate = Dec01 => view.status = "overdue"

\* A goal below its target whose date is earlier the same day: daysLeft
\* rounds up to 0 and the card shows urgent.
C15_Witness ==
  /\ BelowTarget
  /\ view.targetDate = Day("0", "1", "0", "1")
  /\ view.today > At(2024, 1, 1, 0)
  /\ view.status = "urgent"

\* C16: with target <= 0 a goal card is not shown completed on the basis of
\* its progress, whatever was saved, and the progress shown is never NaN or
\* Infinity.
C16_NoTargetNoCompletion ==
  (GoalShown /\ view.b <= 0) =>
    /\ view.status # "completed"
    /\ view.shown.k = "finite"

\* C17: whatever POST /api/transactions and PUT /api/transactions/:id requests
\* were made, every stored transaction has amount > 0; a request whose amount
\* is zero, negative or not a number is answered 400 and stores nothing.
C17_StoredAmountsPositive ==
  /\ [](\A id \in DOMAIN transactions : transactions[id].amount > 0)
  /\ [][/\ \A uid \in Users, body \in AmountPostBodies :
            (BadAmount(body) /\ PostTransaction(uid, body)) =>
              status' = 400 /\ stores' = stores
        /\ \A uid \in Users, id \in TxnIds, body \in AmountPutBodies :
            (BadAmount(body) /\ PutTransaction(uid, id, body)) =>
              status' = 400 /\ stores' = stores]_vars

\* A request with a bad amount was refused while a transaction is stored.
C17_Witness ==
  /\ status = 400
  /\ \E id \in DOMAIN transactions : transactions[id].amount = 2

\* C18: when the storage read of getMonthlyBalance or getCategoryTotals
\* fails, the analytics route answers with an error status, never a success.
C18_FailedReadIsAnError ==
  storageCall.threw => response.status >= 400

\* C19: a monthly-balance request whose year or month is present but not
\* numeric is answered as a client error and getMonthlyBalance is not called;
\* the aggregation is never called with a year or month that is not a number.
AllDigits(v) == v.k = "string" /\ v.c # <<>> /\ \A i \in 1..Len(v.c) : IsDigit(v.c[i])
C19_NonNumericRejected ==
  /\ (/\ request.route = "monthly-balance"
      /\ QTruthy(request.a) /\ QTruthy(request.b)
      /\ ~AllDigits(request.a) \/ ~AllDigits(request.b)) =>
        response.status = 400 /\ storageCall.fn = "none"
  /\ storageCall.fn = "getMonthlyBalance" =>
       storageCall.x.k = "number" /\ storageCall.y.k = "number"

\* C20: monthly-balance without year or without month, and category-totals
\* without startDate or without endDate, are answered 400 and no storage
\* function is called.
ParameterMissing == request.a.k = "undefined" \/ request.b.k = "undefined"
C20_MissingParameterIs400 ==
  (request.route \in {"monthly-balance", "category-totals"} /\ ParameterMissing) =>
    response.status = 400 /\ storageCall = NoCall

\* Each route has refused a request that lacks one of its two parameters,
\* here after a transaction was stored.
C20_Witness ==
  /\ transactions # Empty
  /\ request.route = "monthly-balance"
  /\ request.a.k = "string" /\ request.b.k = "undefined"
  /\ response.status = 400

\* ------------------------------------------------- savings goals: the completed flag
\* The three savings-goal routes with bodies that vary the amounts and the
\* completed flag: a goal is created at currentAmount 0 or GoalTarget and is
\* moved below, onto and above its target by updates.
GoalTarget == 2
GoalPostBodies ==
  {[NoGoalFields EXCEPT !.keys = {"targetAmount"}, !.targetAmount = GoalTarget],
   [NoGoalFields EXCEPT !.keys = {"targetAmount", "currentAmount"},
                        !.targetAmount = GoalTarget, !.currentAmount = GoalTarget],
   [NoGoalFields EXCEPT !.keys = {"targetAmount", "completed"},
                        !.targetAmount = GoalTarget, !.completed = TRUE]}
GoalPutBodies ==
  {[NoGoalFields EXCEPT !.keys = {}],
   [NoGoalFields EXCEPT !.keys = {"targetDate"}, !.targetDate = DateVal(CrudDate)],
   [NoGoalFields EXCEPT !.keys = {"targetAmount"}, !.targetAmount = 0],
   [NoGoalFields EXCEPT !.keys = {"targetAmount"}, !.targetAmount = 1]}
  \cup {[NoGoalFields EXCEPT !.keys = {"currentAmount"}, !.currentAmount = a] :
          a \in 1..(GoalTarget + 1)}
  \cup {[NoGoalFields EXCEPT !.keys = {"completed"}, !.completed = b] : b \in BOOLEAN}
  \cup {[NoGoalFields EXCEPT !.keys = {"currentAmount", "completed"},
                             !.currentAmount = GoalTarget, !.completed = b] : b \in BOOLEAN}

GoalPostSavingsGoal == \E uid \in Users, body \in GoalPostBodies : PostSavingsGoal(uid, body)
GoalPutSavingsGoal ==
  \E uid \in Users, id \in GoalIds, body \in GoalPutBodies : PutSavingsGoal(uid, id, body)
GoalDeleteSavingsGoal == \E uid \in Users, id \in GoalIds : DeleteSavingsGoal(uid, id)

NextGoals ==
  \/ GoalPostSavingsGoal
  \/ GoalPutSavingsGoal
  \/ GoalDeleteSavingsGoal

SpecGoals == Init /\ [][NextGoals]_vars

\* C21: the stored completed flag of a savings goal is independent of its
\* amounts.  A PUT changes completed only when its body supplies completed
\* (and then stores the supplied value); an update of currentAmount, also to
\* a value at or above targetAmount, leaves completed as it was.  That
\* completed can be true below the target is what C21_Witness reaches.
C21_CompletedOnlyWhenSupplied ==
  [][\A uid \in Users, id \in GoalIds, body \in GoalPutBodies :
       (PutSavingsGoal(uid, id, body) /\ id \in DOMAIN savingsGoals)
         => /\ id \in DOMAIN savingsGoals'
            /\ savingsGoals'[id].completed =
                 IF Has(body, "completed") /\ status' = 200
                   THEN body.completed
                   ELSE savingsGoals[id].completed]_vars

\* A goal moved above its target by an update (no goal is created there) and
\* still not completed: the amounts say "reached", the flag says no.
C21_Witness ==
  \E id \in DOMAIN savingsGoals :
    /\ savingsGoals[id].currentAmount = GoalTarget + 1
    /\ savingsGoals[id].currentAmount >= savingsGoals[id].targetAmount
    /\ ~savingsGoals[id].completed
    /\ status = 200

\* ------------------------------------------------- the Budget page over a store
\* Budgets are created and deleted, a transaction is recorded, and the page
\* is rendered for either user any number of times.
PageBudgetAmount == 5
PagePostBudgetBodies ==
  {[keys |-> {"categoryId", "amount", "startDate"}, userId |-> "u1",
    categoryId |-> Null, amount |-> a, startDate |-> CrudDate] :
     a \in {0, PageBudgetAmount}}
PagePostBudget == \E uid \in Users, body \in PagePostBudgetBodies : PostBudget(uid, body)
PageDeleteBudget == \E uid \in Users, id \in BudgetIds : DeleteBudget(uid, id)
PagePostTransaction ==
  \E uid \in Users :
    PostTransaction(uid, [keys |-> {"categoryId", "amount", "type", "date"}, userId |-> "u1",
                          categoryId |-> Null, amount |-> 1, type |-> "expense", date |-> CrudDate])
PageRenderBudgetPage == \E uid \in Users : RenderBudgetPage(uid)

NextBudgetPage ==
  \/ PagePostBudget
  \/ PagePostTransaction
  \/ PageDeleteBudget
  \/ PageRenderBudgetPage

SpecBudgetPage == Init /\ [][NextBudgetPage]_vars

CardsWithStatus(st) ==
  Cardinality({n \in 1..Len(budgetPage.cards) : budgetPage.cards[n].status = st})
CountersAgreeWithCards ==
  budgetPage.rendered =>
    /\ budgetPage.within = CardsWithStatus("good")
    /\ budgetPage.near = CardsWithStatus("warning")
SameDataSameCards ==
  (budgetPage.rendered /\ budgetPage'.rendered /\ budgetPage'.data = budgetPage.data
     /\ transactions' = transactions)
    => budgetPage'.cards = budgetPage.cards

\* C22: what the Budget page shows is a function of the budgets and the
\* transactions.  Within one render the counters "within limit" and "near
\* limit" count the cards shown with status good and warning, and a second
\* render over the same data shows the same cards (spent, percentage, status).
C22_BudgetPageDeterministic ==
  []CountersAgreeWithCards /\ [][SameDataSameCards]_vars

\* ------------------------------------------------- owners of stored records
OwnerKept(coll, collNext) ==
  \A id \in DOMAIN coll \cap DOMAIN collNext : collNext[id].userId = coll[id].userId

\* C23: no request changes the owner of a record: a record that is stored
\* before and after a step has the same userId, in all four collections.
C23_OwnerNeverChanges ==
  [][/\ OwnerKept(categories, categories')
     /\ OwnerKept(transactions, transactions')
     /\ OwnerKept(budgets, budgets')
     /\ OwnerKept(savingsGoals, savingsGoals')]_vars

\* ------------------------------------------------- creation under the token's uid
\* The four POST routes by either user, with bodies that carry no userId and
\* bodies that carry the userId of u2 (these have an amount or name of their
\* own, so that the records they create can be told apart).
CreateCatBodies ==
  {[keys |-> {"name", "type"}, userId |-> "u1", name |-> "Food", type |-> "expense"],
   [keys |-> {"name", "type"}, userId |-> "u1", name |-> "", type |-> "expense"],
   [keys |-> {"name", "type", "userId"}, userId |-> "u2", name |-> "Rent", type |-> "expense"]}
CreateTxnBodies ==
  {[keys |-> {"categoryId", "amount", "type", "date"}, userId |-> "u1",
    categoryId |-> Null, amount |-> a, type |-> "expense", date |-> CrudDate] : a \in {0, 1}}
  \cup {[keys |-> {"categoryId", "amount", "type", "date", "userId"}, userId |-> "u2",
         categoryId |-> Null, amount |-> 2, type |-> "expense", date |-> CrudDate]}
CreateBudgetBodies ==
  {[keys |-> {"categoryId", "amount", "startDate"}, userId |-> "u1",
    categoryId |-> Null, amount |-> a, startDate |-> CrudDate] : a \in {0, 1}}
  \cup {[keys |-> {"categoryId", "amount", "startDate", "userId"}, userId |-> "u2",
         categoryId |-> Null, amount |-> 2, startDate |-> CrudDate]}
CreateGoalBodies ==
  {[NoGoalFields EXCEPT !.keys = {"targetAmount"}, !.targetAmount = a] : a \in {0, 1}}
  \cup {[NoGoalFields EXCEPT !.keys = {"targetAmount", "userId"}, !.targetAmount = 2, !.userId = "u2"]}

CreatePostCategory == \E uid \in Users, body \in CreateCatBodies : PostCategory(uid, body)
CreatePostTransaction == \E uid \in Users, body \in CreateTxnBodies : PostTransaction(uid, body)
CreatePostBudget == \E uid \in Users, body \in CreateBudgetBodies : PostBudget(uid, body)
CreatePostSavingsGoal == \E uid \in Users, body \in CreateGoalBodies : PostSavingsGoal(uid, body)

NextCreate ==
  \/ CreatePostCategory
  \/ CreatePostTransaction
  \/ CreatePostBudget
  \/ CreatePostSavingsGoal

SpecCreate == Init /\ [][NextCreate]_vars

CreatedFor(coll, collNext, uid) ==
  \A id \in DOMAIN collNext \ DOMAIN coll : collNext[id].userId = uid

\* C24: every record created through one of the four POST routes is stored
\* with userId equal to the uid of the request's verified token, whatever
\* userId the request body carries.
C24_CreatedUnderTokenUid ==
  [][\A uid \in Users :
       /\ \A body \in CreateCatBodies :
            PostCategory(uid, body) => CreatedFor(categories, categories', uid)
       /\ \A body \in CreateTxnBodies :
            PostTransaction(uid, body) => CreatedFor(transactions, transactions', uid)
       /\ \A body \in CreateBudgetBodies :
            PostBudget(uid, body) => CreatedFor(budgets, budgets', uid)
       /\ \A body \in CreateGoalBodies :
            PostSavingsGoal(uid, body) => CreatedFor(savingsGoals, savingsGoals', uid)]_vars

\* Records that only a body naming u2 as owner creates, stored as u1's.
C24_Witness ==
  /\ \E id \in DOMAIN categories :
       categories[id].name = "Rent" /\ categories[id].userId = "u1"
  /\ \E id \in DOMAIN transactions :
       transactions[id].amount = 2 /\ transactions[id].userId = "u1"
  /\ \E id \in DOMAIN budgets : budgets[id].amount = 2 /\ budgets[id].userId = "u1"
  /\ \E id \in DOMAIN savingsGoals :
       savingsGoals[id].targetAmount = 2 /\ savingsGoals[id].userId = "u1"

\* ------------------------------------------------- requests through the middleware
\* Authorization headers: none, another scheme, 'Bearer ' with nothing
\* after it, a token issued to each user, and tokens that do not verify
\* (expired, or naming a user without being issued by Firebase).
ForgedFor(u) == <<"forged-for-", u>>
AuthHeaders ==
  {QAbsent, QStr(<<"Basic ", "dTE6cHc=">>), QStr(<<Bearer>>),
   QStr(<<Bearer, "expired">>), QStr(<<Bearer>> \o ForgedFor("u1"))}
  \cup {QStr(<<Bearer>> \o IssuedTo(u)) : u \in Users}
AuthCatBodies ==
  {[keys |-> {"name", "type"}, userId |-> "u1", name |-> n, type |-> "expense"] : n \in {"Food", ""}}
AuthTxnBodies ==
  {[keys |-> {"categoryId", "amount", "type", "date"}, userId |-> "u1",
    categoryId |-> Null, amount |-> 1, type |-> "expense", date |-> At(2024, 2, 1, 0)]}
AuthMonthlyQueries == {[a |-> QStr(Y2024), b |-> QStr(<<"2">>)], [a |-> QAbsent, b |-> QAbsent]}

\* Every request a client can send with header h.
RequestWith(h) ==
  \/ \E body \in AuthCatBodies : CategoriesPost(h, body)
  \/ \E id \in CatIds : CategoriesDelete(h, id)
  \/ \E body \in AuthTxnBodies : TransactionsPost(h, body)
  \/ \E q \in AuthMonthlyQueries : MonthlyBalanceGet(h, q, "ok")

AuthCategoriesPost == \E h \in AuthHeaders, body \in AuthCatBodies : CategoriesPost(h, body)
AuthCategoriesDelete == \E h \in AuthHeaders, id \in CatIds : CategoriesDelete(h, id)
AuthTransactionsPost == \E h \in AuthHeaders, body \in AuthTxnBodies : TransactionsPost(h, body)
AuthMonthlyBalanceGet ==
  \E h \in AuthHeaders, q \in AuthMonthlyQueries : MonthlyBalanceGet(h, q, "ok")

NextAuth ==
  \/ AuthCategoriesPost
  \/ AuthCategoriesDelete
  \/ AuthTransactionsPost
  \/ AuthMonthlyBalanceGet

SpecAuth == Init /\ [][NextAuth]_vars

\* The header has the form 'Bearer <token>' / its token was issued to a user.
BearerForm(h) == h.k = "string" /\ Len(h.c) > 1 /\ h.c[1] = Bearer /\ h.c[2] # Bearer
Verifies(h) == \E u \in Users : h = QStr(<<Bearer>> \o IssuedTo(u))
HandlerNotRun ==
  /\ stores' = stores /\ seqs' = seqs
  /\ request' = request /\ storageCall' = storageCall /\ response' = response

\* C25: no handler reads or writes storage unless the request's ID token was
\* verified.  A request whose Authorization header is not of the form
\* 'Bearer <token>' is answered 401, one whose token does not verify 403;
\* in both cases the handler is not run: the store, and what the analytics
\* handlers record of their request, storage call and response, stay as they
\* were.
C25_UnverifiedRequestsRejected ==
  [][\A h \in AuthHeaders :
       (~Verifies(h) /\ RequestWith(h))
         => /\ status' = IF BearerForm(h) THEN 403 ELSE 401
            /\ HandlerNotRun]_vars

\* A request refused for a token that does not verify, after records were
\* stored and an aggregation was answered: they are all still there.
C25_Witness ==
  /\ status = 403
  /\ categories # Empty /\ transactions # Empty
  /\ response.status = 200

\* ------------------------------------------------- the Reports page over a store
\* Transactions dated on the last day of February 2024 and on the first of
\* March; the page is rendered in months of 29, 30 and 31 days.
ReportsTxnDates == {At(2024, 2, 29, 1), At(2024, 3, 1, 0)}
ReportsPostTxnBodies ==
  {[keys |-> {"categoryId", "amount", "type", "date"}, userId |-> "u1",
    categoryId |-> Null, amount |-> 1, type |-> "expense", date |-> d] : d \in ReportsTxnDates}
ReportsPeriods == {"current-month", "last-3-months", "current-year"}
ReportsMonths == {<<2024, 1>>, <<2024, 2>>, <<2024, 4>>}

ReportsPostTransaction ==
  \E body \in ReportsPostTxnBodies : PostTransaction("u1", body)
ReportsRender ==
  \E period \in ReportsPeriods, ym \in ReportsMonths : RenderReports(period, ym[1], ym[2])
ReportsFetchCategoryTotals == FetchCategoryTotals("u1")

NextReports ==
  \/ ReportsPostTransaction
  \/ ReportsRender
  \/ ReportsFetchCategoryTotals

SpecReports == Init /\ [][NextReports]_vars

\* The totals the page shows were asked for with the range it now has.
TotalsOfReports ==
  /\ request.route = "category-totals"
  /\ request.a = reports.startDate /\ request.b = reports.endDate
  /\ response.kind = "totals"
\* The transactions of the asking user that the answer was computed from
\* and that fall in the range the storage was called with.
CountedInTotals ==
  LET txs == response.readFrom[2]
  IN {id \in DOMAIN txs :
        /\ txs[id].userId = request.uid
        /\ txs[id].date >= storageCall.x.n
        /\ txs[id].date <= storageCall.y.n}

\* C26: for the period 'current-month' the date range of the Reports page
\* ends on the last calendar day of the current month, whatever its length,
\* and the category totals shown for the month count no transaction dated
\* outside the month.
C26_RangeEndsOnLastDayOfMonth ==
  (reports.rendered /\ reports.period = "current-month") =>
    /\ reports.endDate =
         QStr(DateString(reports.year, reports.month,
                         PadStart2(NumberToString(DaysInMonth(reports.year, reports.month)))))
    /\ TotalsOfReports =>
         \A id \in CountedInTotals :
           InMonth(response.readFrom[2][id].date, reports.year, reports.month)

\* ------------------------------------------------- concurrent upsertUserProfile
\* Calls for either user with a first name or a last name; the steps of
\* different calls interleave at every await.
ProfileInputs ==
  {[f \in {"firstName"} |-> "Ann"], [f \in {"lastName"} |-> "Lee"]}
UpsertBeginAny ==
  \E c \in Calls, userId \in Users, profileData \in ProfileInputs :
    UpsertBegin(c, userId, profileData)
UpsertGetAny == \E c \in Calls : UpsertGet(c)
UpsertUpdateAny == \E c \in Calls : UpsertUpdate(c)
UpsertGetUserAny == \E c \in Calls : UpsertGetUser(c)
UpsertSetAny == \E c \in Calls : UpsertSet(c)
UpsertReturnAny == \E c \in Calls : UpsertReturn(c)

NextUpsert ==
  \/ UpsertBeginAny
  \/ UpsertGetAny
  \/ UpsertUpdateAny
  \/ UpsertGetUserAny
  \/ UpsertSetAny
  \/ UpsertReturnAny

SpecUpsert == Init /\ [][NextUpsert]_vars

\* C27: createdAt is set when the user document is created and never
\* afterwards, under every interleaving of upsertUserProfile calls: a write
\* to an existing profile keeps its createdAt and every field it has (fields
\* written by an earlier call are not lost to a later creation), and every
\* write sets updatedAt to the time of the write.
C27_CreatedAtWrittenOnce ==
  [][\A u \in DOMAIN users' :
       /\ u \in DOMAIN users =>
            /\ users'[u].createdAt = users[u].createdAt
            /\ DOMAIN users[u] \subseteq DOMAIN users'[u]
       /\ (u \notin DOMAIN users \/ users'[u] # users[u]) =>
            users'[u].updatedAt = serverTime']_vars

\* ------------------------------------------------- the session in the browser
\* Sign-ins of either user and sign-outs in any order, token requests that
\* resolve or reject in any order, and navigation to every address.
FirebaseUsers == {Null} \cup {Str(u) : u \in Users}
SessionAuthStateChanged == \E firebaseUser \in FirebaseUsers : OnAuthStateChanged(firebaseUser)
SessionTokenResolved == \E i \in 1..MaxPending : GetIdTokenResolved(i)
SessionTokenRejected == \E i \in 1..MaxPending : GetIdTokenRejected(i)
SessionNavigate == \E location \in Paths : Navigate(location)

NextSession ==
  \/ SessionAuthStateChanged
  \/ SessionTokenResolved
  \/ SessionTokenRejected
  \/ SessionNavigate
  \/ FollowRedirect

SpecSession == Init /\ [][NextSession]_vars

\* C28: in every state of useAuth, firebaseToken is non-null only if user is
\* non-null and the token was issued for that user, however the auth
\* callbacks and their getIdToken() calls interleave.
C28_TokenBelongsToUser ==
  authHook.firebaseToken # Null =>
    /\ authHook.user # Null
    /\ authHook.firebaseToken = getIdToken(authHook.user)

\* ------------------------------------------------- what the Router shows
ProtectedPages == {"Dashboard", "Transactions", "Budget", "Goals", "Reports"}
PublicForms == {"/login", "/register"}
RouterShows ==
  /\ router.screen \in ProtectedPages => ~authHook.isLoading /\ IsAuthenticated(authHook)
  /\ authHook.isLoading => router.screen = "Loading"
  /\ (~authHook.isLoading /\ ~IsAuthenticated(authHook) /\ router.location \notin PublicForms)
       => router.screen = IF router.location = "/" THEN "Landing" ELSE "Redirect"
  /\ (~authHook.isLoading /\ IsAuthenticated(authHook) /\ router.location \in PublicForms)
       => router.screen = "Redirect"
RedirectsToRoot ==
  FollowRedirect =>
    /\ router'.location = "/"
    /\ router'.screen = IF IsAuthenticated(authHook) THEN "Dashboard" ELSE "Landing"

\* C30: the Router renders a protected page only when isLoading is false and
\* isAuthenticated is true; while the auth state is loading it renders no
\* page; an unauthenticated user at an address other than /login and
\* /register is shown the landing page at "/" and is redirected to "/" from
\* anywhere else; an authenticated user at /login or /register is redirected
\* to "/", where the dashboard is shown.
C30_ProtectedPagesNeedAuth ==
  []RouterShows /\ [][RedirectsToRoot]_vars

\* A signed-in user, the token in hand, on the Reports page.
C30_Witness ==
  /\ router.screen = "Reports"
  /\ IsAuthenticated(authHook) /\ ~authHook.isLoading
  /\ authHook.firebaseToken = getIdToken(authHook.user)

\* ------------------------------------------------- the client's cache over a store
\* The signed-in user creates, changes and deletes transactions through the
\* form and the list, and the three queries are fetched whenever they are
\* missing or invalidated.
CacheTxnBodies ==
  {[keys |-> {"categoryId", "amount", "type", "date"}, userId |-> "u1",
    categoryId |-> Null, amount |-> a, type |-> "expense", date |-> CrudDate] : a \in {0, 1}}
CachePutTxnBodies ==
  {[NoTxnFields EXCEPT !.keys = {"date", "amount"}, !.date = CrudDate, !.amount = 2]}

CacheFetch == \E key \in QueryKeys : FetchQuery(key)
CacheCreate == \E body \in CacheTxnBodies : SubmitMutation("create", "", body)
CacheUpdate == \E id \in TxnIds, body \in CachePutTxnBodies : SubmitMutation("update", id, body)
CacheDelete == \E id \in TxnIds : SubmitMutation("delete", id, Empty)

NextCache ==
  \/ CacheFetch
  \/ CacheCreate
  \/ CacheUpdate
  \/ CacheDelete
  \/ HandleMutation
  \/ SettleMutation

SpecCache == Init /\ [][NextCache]_vars

\* C29: once a create, update or delete of a transaction has succeeded and
\* its onSuccess has run, each of the queries /api/transactions,
\* /api/analytics/monthly-balance and /api/analytics/category-totals is
\* either invalidated or was computed from the transactions as they are
\* now: the client shows no data computed before the mutation.
C29_MutationsInvalidateAnalytics ==
  mutation = NoMutation =>
    \A key \in QueryKeys :
      (queryCache[key].fetched /\ ~queryCache[key].invalidated)
        => queryCache[key].readFrom = transactions

====
